---- MODULE Spec2Model ----
\* A model of the OSGB -> 3D Tiles conversion library (RealScene3D.Lib/OSGB/Native):
\* the process-wide GeoTransform, the batch driver OSGB23dTiles::ToB3DMBatch
\* with its parallel root-tile tasks, the B3DM framing of ToB3DMBuf, the
\* metadata parser OSGBTools::ParseMetadataXml, the LOD tree of one root tile
\* (OSGB23dTiles::ToB3DM) and the GLB writer OSGB23dTiles::ToGLBBuf.
EXTENDS Integers, Sequences, FiniteSets, TLC

\* ------------------------------------------------------------------------
\* Bounds of the model
\* ------------------------------------------------------------------------
\* number of GeoTransform API calls explored in one behaviour
MaxGeoCalls == 3
\* number of root tiles of a dataset
MaxTiles == 2
\* length in bytes of the GLB payloads handed to ToB3DMBuf
MaxGlbLen == 6
\* number of OSGB files a root tile is made of
MaxFiles == 3
\* number of geometries of a file made of several geometries
MaxGeometries == 2
\* number of textures of a file
MaxTextures == 1
\* the longest quad strip
MaxStripLen == 6
\* ToB3DMBatch calls of one process
MaxBatchCalls == 2
\* depth of a scene graph
MaxSceneDepth == 2
\* nodes of a LOD tree given as such
MaxNodes == 5
\* files LoadAndConvertToMesh finds
MaxLoadFiles == 3

\* ------------------------------------------------------------------------
\* Strings
\* ------------------------------------------------------------------------
\* a std::string built by stream insertions is kept as the sequence of the
\* inserted pieces; the empty sequence is the empty string
EmptyStr == << >>

\* ------------------------------------------------------------------------
\* PROJ (external library) as seen by GeoTransform
\* ------------------------------------------------------------------------
\* a PJ* is a record; nullptr is NullPJ
NullPJ == [src |-> "nullptr", normalized |-> FALSE]
NullCtx == "nullptr"
\* value proj_trans returns in x when the transformation failed
HUGE_VAL == 1000000

\* what the environment answers to the PROJ calls of one init-* call
Envs == [ctxOk : BOOLEAN, srcOk : BOOLEAN, dstOk : BOOLEAN,
         crsOk : BOOLEAN, normOk : BOOLEAN, transOk : BOOLEAN]

\* proj_trans(pj, PJ_FWD, p): a projected source CRS maps (easting, northing, h)
\* to degrees; EPSG:4326 -> EPSG:4326 is the identity. Without
\* proj_normalize_for_visualization the result is in authority order
\* (latitude first).
ProjTrans(pj, p, transOk) ==
    IF ~transOk THEN <<HUGE_VAL, HUGE_VAL, HUGE_VAL>>
    ELSE IF pj.src = "EPSG:4326" THEN p
    ELSE LET lon == (p[1] \div 100) + 100
             lat == p[2] \div 100
         IN  IF pj.normalized THEN <<lon, lat, p[3]>> ELSE <<lat, lon, p[3]>>


\* ------------------------------------------------------------------------
\* GeoTransform (static members)
\* ------------------------------------------------------------------------
\* static member initialisation
GeoTransformStatics ==
    [projTransform |-> NullPJ, projContext |-> NullCtx,
     OriginX |-> 0, OriginY |-> 0, OriginZ |-> 0,
     GeoOriginLon |-> 0, GeoOriginLat |-> 0, GeoOriginHeight |-> 0,
     IsENU |-> FALSE, EcefToEnuMatrix |-> [kind |-> "identity", lon |-> 0, lat |-> 0, h |-> 0],
     lastError |-> EmptyStr]

\* GeoTransform::Init(transform, origin); origin is only read
GeoInit(g, transform, origin, env) ==
    LET g1 == [g EXCEPT !.projTransform = transform,
                        !.OriginX = origin[1], !.OriginY = origin[2],
                        !.OriginZ = origin[3], !.IsENU = FALSE]
        originLocal == <<origin[1], origin[2], origin[3]>>
        result == ProjTrans(transform, originLocal, env.transOk)
        originCartographic ==
            IF transform # NullPJ /\ result[1] # HUGE_VAL THEN result ELSE originLocal
    IN  [g1 EXCEPT !.GeoOriginLon = originCartographic[1],
                   !.GeoOriginLat = originCartographic[2],
                   !.GeoOriginHeight = originCartographic[3],
                   \* glm::inverse(CalcEnuToEcefMatrix(lon, lat, h)), kept symbolically
                   !.EcefToEnuMatrix = [kind |-> "inverse", lon |-> originCartographic[1],
                                        lat |-> originCartographic[2],
                                        h |-> originCartographic[3]]]

\* GeoTransform::SetGeographicOrigin
SetGeographicOrigin(g, lon, lat, height) ==
    [g EXCEPT !.GeoOriginLon = lon, !.GeoOriginLat = lat, !.GeoOriginHeight = height,
              !.IsENU = TRUE,
              !.EcefToEnuMatrix = [kind |-> "inverse", lon |-> lon, lat |-> lat, h |-> height]]

\* a Cleanup that forgets to reset the transform pointer
Cleanup_KeepsTransform(g) ==
    [g EXCEPT !.projContext = NullCtx]

\* GeoTransform::Cleanup
Cleanup(g) ==
    LET g1 == IF g.projTransform # NullPJ THEN [g EXCEPT !.projTransform = NullPJ] ELSE g
    IN  IF g1.projContext # NullCtx THEN [g1 EXCEPT !.projContext = NullCtx] ELSE g1

\* the guard "if (projContext || projTransform) Cleanup();" of every init-*
CleanOld(g) ==
    IF g.projContext # NullCtx \/ g.projTransform # NullPJ THEN Cleanup(g) ELSE g

\* the stub bodies compiled without ENABLE_PROJ
InitStub(g) ==
    [g |-> [g EXCEPT !.lastError = <<"PROJ library not enabled">>], ret |-> FALSE]

\* the null pointer passed for origin / wkt
NullArg == << >>

\* GeoTransform::InitFromEPSG(epsg_code, origin)
InitFromEPSG(g, enableProj, epsg_code, origin, env) ==
    IF ~enableProj THEN InitStub(g)
    ELSE
    LET g0 == CleanOld(g)
        crs_from == "EPSG:" \o ToString(epsg_code)
        crs_to == "EPSG:4326"
        transform == [src |-> crs_from, normalized |-> env.normOk]
    IN  IF origin = NullArg
        THEN [g |-> [g0 EXCEPT !.lastError = <<"origin is null">>], ret |-> FALSE]
        ELSE IF ~env.ctxOk
        THEN [g |-> [g0 EXCEPT !.lastError = <<"Failed to create PROJ context">>],
              ret |-> FALSE]
        ELSE IF ~env.crsOk
        THEN [g |-> [g0 EXCEPT !.lastError =
                        <<"Failed to create transformation", " from ", crs_from,
                          " to ", crs_to, ": ", "proj_errno_string">>],
              ret |-> FALSE]
        ELSE [g |-> GeoInit([g0 EXCEPT !.projContext = "PJ_CONTEXT"], transform, origin, env),
              ret |-> TRUE]

\* GeoTransform::InitFromENU(lon, lat, origin_enu)
InitFromENU(g, enableProj, lon, lat, origin_enu, env) ==
    IF ~enableProj THEN InitStub(g)
    ELSE
    LET g0 == CleanOld(g)
        transform == [src |-> "EPSG:4326", normalized |-> FALSE]
    IN  IF origin_enu = NullArg
        THEN [g |-> [g0 EXCEPT !.lastError = <<"origin_enu is null">>], ret |-> FALSE]
        ELSE IF ~env.ctxOk
        THEN [g |-> [g0 EXCEPT !.lastError = <<"Failed to create PROJ context">>],
              ret |-> FALSE]
        ELSE IF ~env.crsOk
        THEN [g |-> [g0 EXCEPT !.lastError = <<"Failed to create identity transformation">>],
              ret |-> FALSE]
        ELSE [g |-> SetGeographicOrigin(
                        GeoInit([g0 EXCEPT !.projContext = "PJ_CONTEXT"], transform,
                                origin_enu, env),
                        lon, lat, 0),
              ret |-> TRUE]

\* GeoTransform::InitFromWKT(wkt, origin)
InitFromWKT(g, enableProj, wkt, origin, env) ==
    IF ~enableProj THEN InitStub(g)
    ELSE
    LET g0 == CleanOld(g)
        transform == [src |-> wkt[1], normalized |-> env.normOk]
    IN  IF wkt = NullArg \/ origin = NullArg
        THEN [g |-> [g0 EXCEPT !.lastError = <<"wkt or origin is null">>], ret |-> FALSE]
        ELSE IF ~env.ctxOk
        THEN [g |-> [g0 EXCEPT !.lastError = <<"Failed to create PROJ context">>],
              ret |-> FALSE]
        ELSE IF ~env.srcOk
        THEN [g |-> [g0 EXCEPT !.lastError = <<"Failed to parse WKT", ": ", "proj_errno_string">>],
              ret |-> FALSE]
        ELSE IF ~env.dstOk
        THEN [g |-> [g0 EXCEPT !.lastError = <<"Failed to create EPSG:4326 CRS">>],
              ret |-> FALSE]
        ELSE IF ~env.crsOk
        THEN [g |-> [g0 EXCEPT !.lastError =
                        <<"Failed to create transformation", ": ", "proj_errno_string">>],
              ret |-> FALSE]
        ELSE [g |-> GeoInit([g0 EXCEPT !.projContext = "PJ_CONTEXT"], transform, origin, env),
              ret |-> TRUE]

\* the NULL a const char* accessor returns
NULL == <<"NULL">>

\* GeoTransform::GetLastError / coord_get_last_error
GetLastError(g) == IF g.lastError = EmptyStr THEN NULL ELSE g.lastError

\* GeoTransform::IsInitialized / coord_is_initialized
IsInitialized(g) == g.projTransform # NullPJ

\* ------------------------------------------------------------------------
\* B3DM framing (OSGB23dTiles::ToB3DMBuf); buffers are sequences of bytes
\* ------------------------------------------------------------------------

\* std::to_string of a non-negative int
RECURSIVE ToDecimal(_)
ToDecimal(n) ==
    IF n < 10 THEN <<48 + n>> ELSE ToDecimal(n \div 10) \o <<48 + (n % 10)>>

\* template PutVal<int>: the four bytes of val, little endian
PutVal(buf, val) ==
    buf \o <<val % 256, (val \div 256) % 256, (val \div 65536) % 256,
             (val \div 16777216) % 256>>

\* int mesh_count = 1;
mesh_count == 1

\* feature_json_string before padding
FeatureJson(count) ==
    \* {"BATCH_LENGTH": count }
    <<123, 34, 66, 65, 84, 67, 72, 95, 76, 69, 78, 71, 84, 72, 34, 58>>
        \o ToDecimal(count) \o <<125>>

\* while ((feature_json_string.size() + 28) % 8 != 0) push_back(' ')
RECURSIVE PadFeatureJson(_)
PadFeatureJson(str) ==
    IF (Len(str) + 28) % 8 # 0 THEN PadFeatureJson(Append(str, 32)) ELSE str

\* the elements of a JSON array, comma separated
RECURSIVE JoinItems(_)
JoinItems(items) ==
    IF items = << >> THEN << >>
    ELSE IF Len(items) = 1 THEN items[1]
    ELSE items[1] \o <<44>> \o JoinItems(Tail(items))

\* batch_json.dump(): keys in std::map order, no white space
BatchJsonDump(count) ==
    LET ids == [i \in 1..count |-> ToDecimal(i - 1)]
        \* "mesh_<i>"
        names == [i \in 1..count |->
                    <<34>> \o <<109, 101, 115, 104, 95>> \o ToDecimal(i - 1) \o <<34>>]
        \* {"batchId":[ ids ],"name":[ names ]}
    IN  <<123, 34, 98, 97, 116, 99, 104, 73, 100, 34, 58, 91>> \o JoinItems(ids)
        \o <<93, 44, 34, 110, 97, 109, 101, 34, 58, 91>> \o JoinItems(names) \o <<93, 125>>

\* padding of the batch table to a multiple of four only
RECURSIVE PadBatchJson_To4(_)
PadBatchJson_To4(str) ==
    IF Len(str) % 4 # 0 THEN PadBatchJson_To4(Append(str, 32)) ELSE str

\* while (batch_json_string.size() % 8 != 0) push_back(' ')
RECURSIVE PadBatchJson(_)
PadBatchJson(str) ==
    IF Len(str) % 8 # 0 THEN PadBatchJson(Append(str, 32)) ELSE str

\* a total length that leaves out the batch table
TotalLen_NoBatch(feature_json_len, batch_json_len, glb_size) ==
    28 + feature_json_len + glb_size

\* int total_len = 28 + feature_json_len + batch_json_len + glb_buf.size()
TotalLen(feature_json_len, batch_json_len, glb_size) ==
    28 + feature_json_len + batch_json_len + glb_size

\* OSGB23dTiles::ToB3DMBuf, given what ToGLBBuf returned; b3dm_buf is appended to
ToB3DMBuf(b3dm_buf, glbOk, glb) ==
    IF ~glbOk THEN [ret |-> FALSE, b3dm_buf |-> b3dm_buf]
    ELSE
    LET feature_json_string == PadFeatureJson(FeatureJson(mesh_count))
        batch_json_string == PadBatchJson(BatchJsonDump(mesh_count))
        feature_json_len == Len(feature_json_string)
        feature_bin_len == 0
        batch_json_len == Len(batch_json_string)
        batch_bin_len == 0
        total_len == TotalLen(feature_json_len, batch_json_len, Len(glb))
        version == 1
        header == PutVal(PutVal(PutVal(PutVal(PutVal(PutVal(b3dm_buf \o <<98, 51, 100, 109>>,
                      version), total_len), feature_json_len), feature_bin_len),
                      batch_json_len), batch_bin_len)
    IN  [ret |-> TRUE,
         b3dm_buf |-> header \o feature_json_string \o batch_json_string \o glb]

\* ------------------------------------------------------------------------
\* Tile boxes and the dataset-root tileset (Tileset.h, OSGB23dTiles.cpp)
\* ------------------------------------------------------------------------
\* a default-constructed TileBox: both vectors empty
EmptyBox == [max |-> << >>, min |-> << >>]

\* ExpandBox(box, box_new): box grown in place to contain box_new
ExpandBox(box, box_new) ==
    IF box_new.max = << >> \/ box_new.min = << >> THEN box
    ELSE LET bmax == IF box.max = << >> THEN box_new.max ELSE box.max
             bmin == IF box.min = << >> THEN box_new.min ELSE box.min
         IN  [max |-> [i \in 1..3 |-> IF bmax[i] < box_new.max[i]
                                      THEN box_new.max[i] ELSE bmax[i]],
              min |-> [i \in 1..3 |-> IF bmin[i] > box_new.min[i]
                                      THEN box_new.min[i] ELSE bmin[i]]]

\* B3DMResult of a ToB3DM call that returned early
FailedResult == [success |-> FALSE, tilesetJson |-> EmptyStr,
                 boundingBox |-> <<0, 0, 0, 0, 0, 0>>]

\* tile.bbox as the batch loop sets it from result.boundingBox
BoxOfResult(result) ==
    [max |-> <<result.boundingBox[1], result.boundingBox[2], result.boundingBox[3]>>,
     min |-> <<result.boundingBox[4], result.boundingBox[5], result.boundingBox[6]>>]

\* the per-tile tileset.json text wrapped around the tile's root node
WrappedJson(tilesetJson) ==
    <<"{", "\"asset\":{\"version\":\"1.0\",\"gltfUpAxis\":\"Z\"},",
      "\"geometricError\":1000,", "\"root\":">> \o tilesetJson \o <<"}">>

\* OSGBTools::TransformC: the ENU->ECEF matrix at (lon, lat, height), kept symbolically
TransformC(dCenterX, dCenterY, dHeightMin) ==
    [lon |-> dCenterX, lat |-> dCenterY, h |-> dHeightMin, enuOffset |-> <<0, 0, 0>>]

\* OSGBTools::TransformCWithEnuOffset: the same with the translation shifted
TransformCWithEnuOffset(dCenterX, dCenterY, dHeightMin, ox, oy, oz) ==
    [lon |-> dCenterX, lat |-> dCenterY, h |-> dHeightMin, enuOffset |-> <<ox, oy, oz>>]


\* BoundingVolumeFromTileBox: the box volume of a tile box
BoundingVolumeFromTileBox(tileBox) == [type |-> "Box", box |-> tileBox]

\* a default-constructed TilesetNode
NoNode == [geometricError |-> 0, boundingVolume |-> [type |-> "none", box |-> EmptyBox],
           transform |-> [lon |-> 0, lat |-> 0, h |-> 0, enuOffset |-> << >>],
           contentUri |-> "", children |-> << >>]

\* TilesetNode::ToJson(bIncludeAsset = true): asset, top-level error and the node
TilesetNodeToJson(node) ==
    [asset |-> "{\"version\":\"1.0\",\"gltfUpAxis\":\"Z\"}",
     geometricError |-> node.geometricError, root |-> node]

\* the omp critical(data_update) section entered without waiting
CriticalFree_Unguarded(owner) == TRUE

\* #pragma omp critical(data_update): a task enters when no task is inside
CriticalFree(owner) == owner = 0

\* a batch that reports success whatever the tiles did
BatchSucceeded_Always(jsons) == TRUE

\* "if (tile_jsons.empty()) return false;" and the final "return true;"
BatchSucceeded(jsons) == jsons # << >>

\* ------------------------------------------------------------------------
\* Inputs
\* ------------------------------------------------------------------------
RECURSIVE SeqsUpTo(_, _)
SeqsUpTo(S, n) ==
    IF n = 0 THEN {<< >>}
    ELSE LET shorter == SeqsUpTo(S, n - 1)
         IN  shorter \cup {Append(q, b) : q \in {x \in shorter : Len(x) = n - 1}, b \in S}

\* what ParseMetadataXml leaves in OSGBMetadata; parsed is its return value
NoMetadata ==
    [parsed |-> FALSE, bIsENU |-> FALSE, bIsEPSG |-> FALSE, bIsWKT |-> FALSE,
     nEpsgCode |-> 0, strSrs |-> EmptyStr, dCenterLat |-> 0, dCenterLon |-> 0,
     dOffsetX |-> 0, dOffsetY |-> 0, dOffsetZ |-> 0]
Metadatas ==
    {NoMetadata,
     [NoMetadata EXCEPT !.parsed = TRUE, !.bIsENU = TRUE,
                        !.dCenterLat = 36, !.dCenterLon = 120],
     [NoMetadata EXCEPT !.parsed = TRUE, !.bIsEPSG = TRUE, !.nEpsgCode = 4547,
                        !.dOffsetX = 500, !.dOffsetY = 3450, !.dOffsetZ = 10],
     [NoMetadata EXCEPT !.parsed = TRUE, !.bIsWKT = TRUE, !.strSrs = <<"PROJCS">>,
                        !.dOffsetX = 500, !.dOffsetY = 3450, !.dOffsetZ = 10]}
\* what ToB3DM may return for a tile
ToB3DMResults(tile_name) ==
    {FailedResult} \cup
    {[success |-> TRUE, tilesetJson |-> <<"{\"geometricError\":1000,", tile_name, "}">>,
      boundingBox |-> b] : b \in {<<2, 2, 2, 0, 0, 0>>, <<5, 1, 3, 1, -1, 1>>}}

\* ------------------------------------------------------------------------
\* State
\* ------------------------------------------------------------------------
VARIABLES
    ENABLE_PROJ,    \* build flag of GeoTransform.cpp
    geo,            \* the static members of GeoTransform
    callLog,        \* the coord_* calls made so far: [op, ok, err]
    glb_ok,         \* what ToGLBBuf returned to ToB3DMBuf
    glb_buf,        \* the GLB buffer ToGLBBuf filled
    b3dm_buf,       \* the buffer ToB3DMBuf fills
    b3dm_ret,       \* what ToB3DMBuf returned
    b3dm_pc,        \* "call" before ToB3DMBuf has run, "done" after
    bpc,            \* where ToB3DMBatch is: "call", "parallel", "returned"
    has_metadata,   \* locals of ToB3DMBatch
    metadata,
    initTried,      \* which init-* the batch called and how it ended
    dCenterX,
    dCenterY,
    is_oblique_data,
    tiles,
    tile_jsons,
    global_bbox,
    rootNode,
    retval,         \* what ToB3DMBatch returned
    tpc,            \* where the loop iteration of each tile is
    tres,           \* the B3DMResult of each iteration
    wasEmpty,       \* what each iteration read from global_bbox.max.empty()
    owner,          \* the iteration inside critical(data_update), 0 if none
    files,          \* the tileset.json files the call has written: path -> content
    corrected,      \* whether InfoVisitor corrected the vertices of each tile
    batch_calls     \* the ToB3DMBatch calls the process has started

geoVars == <<ENABLE_PROJ, geo, callLog>>
b3dmVars == <<glb_ok, glb_buf, b3dm_buf, b3dm_ret, b3dm_pc>>
batchLocals == <<has_metadata, metadata, initTried, dCenterX, dCenterY, is_oblique_data>>
taskVars == <<tpc, tres, wasEmpty, owner, corrected>>
batchVars == <<bpc, batchLocals, tiles, tile_jsons, global_bbox, rootNode, retval,
               taskVars, files, batch_calls>>

VARIABLES
    xml_file,       \* metadata.xml as ParseMetadataXml finds it
    outMetadata,    \* the OSGBMetadata the caller passed to ParseMetadataXml
    parse_ret,      \* what ParseMetadataXml returned
    mpc             \* "call" before ParseMetadataXml has run, "done" after


VARIABLES
    osgb,           \* the OSGB files of a root tile: what reading each one gives
    max_lvl,        \* nMaxLevel of ToB3DM
    root,           \* the OSGTree ToB3DM works on
    reads,          \* the files handed to osgDB::readNodeFiles, in call order
    b3dm_files,     \* the B3DM files DoTileJob wrote: <<file_name, type>>
    calcOrder,      \* the nodes in the order CalcGeometricError set their error
    b3dm_result,    \* the B3DMResult ToB3DM returns
    lod_pc          \* the statement of ToB3DM that runs next

VARIABLES
    glb_args,       \* what ToGLBBuf works on: the geometries and textures of the file, the flags
    osgState,       \* the OsgBuildState with the model and the buffer it points to
    primitive_idx,  \* primitive_idx of ToGLBBuf
    g_idx,          \* the place of the geometry loop in geometry_array
    tex_idx,        \* the place of the image loop in texture_array
    glb_ret,        \* what ToGLBBuf returned
    glb_pc          \* "run", "returned" or "exited"

VARIABLES
    strip_ps,       \* a GL_QUAD_STRIP primitive set
    meshIndices,    \* MeshData::Indices of the mesh extractor
    triangulated_indices,  \* triangulated_indices of WriteElementArrayPrimitive
    strip_done      \* which of the two has run

VARIABLES
    scene_graph,    \* the scene graph of a file
    visitor,        \* the InfoVisitor: is_loadAllType, is_pagedlod, the two buckets
    visit_pc        \* "accept" before the scene accepts the visitor, "visited" after

VARIABLES
    load_args,          \* LoadAndConvertToMesh: the files, loadAllLevels, maxDepth
    processedFiles,
    currentLevelFiles,
    currentDepth,
    merged,             \* the files whose mesh MergeMeshData has merged, in order
    load_pc             \* "call", "while", "returned"

metaVars == <<xml_file, outMetadata, parse_ret, mpc>>
lodVars == <<osgb, max_lvl, root, reads, b3dm_files, calcOrder, b3dm_result, lod_pc>>
glbVars == <<glb_args, osgState, primitive_idx, g_idx, tex_idx, glb_ret, glb_pc>>
stripVars == <<strip_ps, meshIndices, triangulated_indices, strip_done>>
visitVars == <<scene_graph, visitor, visit_pc>>
loadVars == <<load_args, processedFiles, currentLevelFiles, currentDepth, merged, load_pc>>
readVars == <<stripVars, visitVars, loadVars>>
convVars == <<metaVars, lodVars, glbVars, readVars>>
vars == <<geoVars, b3dmVars, batchVars, convVars>>

\* a default-constructed OSGBMetadata; strings are sequences of characters
OSGBMetadata ==
    [strVersion |-> << >>, strSrs |-> << >>, strSrsOrigin |-> << >>,
     bIsENU |-> FALSE, bIsEPSG |-> FALSE, bIsWKT |-> FALSE, nEpsgCode |-> 0,
     dCenterLat |-> 0, dCenterLon |-> 0,
     dOffsetX |-> 0, dOffsetY |-> 0, dOffsetZ |-> 0]


\* ParseMetadataXml not in use
MetaIdle ==
    /\ xml_file = [open |-> FALSE, elements |-> << >>] /\ outMetadata = OSGBMetadata
    /\ parse_ret = FALSE /\ mpc = "idle"

\* std::string file_name when empty; files are named by their number
NoFileName == 0

\* a default-constructed OSGTree
OSGTree ==
    [bbox |-> EmptyBox, geometricError |-> 0, file_name |-> NoFileName,
     sub_nodes |-> << >>, type |-> 0]

\* ToB3DM not in use
LodIdle ==
    /\ osgb = << >> /\ max_lvl = -1 /\ root = OSGTree /\ reads = << >>
    /\ b3dm_files = {} /\ calcOrder = << >> /\ b3dm_result = FailedResult
    /\ lod_pc = "idle"

\* the OsgBuildState ToGLBBuf starts with, the model and buffer it points to
\* included; exited records a call of exit(1)
OsgBuildState ==
    [data_size |-> 0, bufferViews |-> << >>, accessors |-> << >>,
     primitives |-> << >>, images |-> << >>,
     materials |-> << >>, textures |-> << >>,
     draw_array_first |-> -1, draw_array_count |-> -1, exited |-> FALSE]

\* ToGLBBuf not in use
GlbIdle ==
    /\ glb_args = [geometry_array |-> << >>, texture_count |-> 0,
                   enable_draco |-> FALSE, enable_texture_compress |-> FALSE]
    /\ osgState = OsgBuildState
    /\ primitive_idx = 0 /\ g_idx = 0 /\ tex_idx = 0 /\ glb_ret = FALSE /\ glb_pc = "idle"

\* the mesh extractor not in use
StripIdle ==
    /\ strip_ps = [type |-> "none"] /\ meshIndices = << >> /\ triangulated_indices = << >>
    /\ strip_done = {}

\* InfoVisitor(path, loadAllType): is_pagedlod starts as loadAllType
InfoVisitor(loadAllType) ==
    [is_loadAllType |-> loadAllType, is_pagedlod |-> loadAllType,
     geometry_array |-> << >>, other_geometry_array |-> << >>]

\* no scene graph under visit
VisitIdle ==
    /\ scene_graph = [kind |-> "none"] /\ visitor = InfoVisitor(FALSE) /\ visit_pc = "idle"

\* OsgbReader not in use
LoadIdle ==
    /\ load_args = [files |-> << >>] /\ load_pc = "idle"
    /\ processedFiles = {} /\ currentLevelFiles = {} /\ currentDepth = 0
    /\ merged = << >>

ReadIdle == StripIdle /\ VisitIdle /\ LoadIdle

\* the conversion stages not in use
ConvIdle == MetaIdle /\ LodIdle /\ GlbIdle /\ ReadIdle

\* the locals of ToB3DMBatch at entry
BatchEntry ==
    /\ has_metadata = FALSE /\ metadata = NoMetadata
    /\ initTried = [srs |-> "none", ok |-> FALSE, noCrs |-> FALSE]
    /\ dCenterX = 0 /\ dCenterY = 0 /\ is_oblique_data = FALSE
    /\ tiles = << >> /\ tile_jsons = << >> /\ global_bbox = EmptyBox
    /\ rootNode = NoNode /\ retval = FALSE
    /\ tpc = << >> /\ tres = << >> /\ wasEmpty = << >> /\ owner = 0
    /\ corrected = << >>
    /\ files = [path \in {} |-> << >>]

\* ToB3DMBatch not in use
BatchIdle == bpc = "idle" /\ batch_calls = 0 /\ BatchEntry

\* ToB3DMBuf not in use
B3dmIdle ==
    /\ glb_ok = FALSE /\ glb_buf = << >> /\ b3dm_buf = << >>
    /\ b3dm_ret = FALSE /\ b3dm_pc = "idle"

GeoStart ==
    /\ ENABLE_PROJ \in BOOLEAN
    /\ geo = GeoTransformStatics
    /\ callLog = << >>

LogCall(op, r) ==
    callLog' = Append(callLog, [op |-> op, ok |-> r.ret,
                                err |-> IF r.ret THEN EmptyStr ELSE r.g.lastError])

\* coord_init_epsg
coord_init_epsg ==
    /\ Len(callLog) < MaxGeoCalls
    /\ \E code \in {4547}, origin \in {<<500, 3450, 10>>, NullArg}, env \in Envs :
          LET r == InitFromEPSG(geo, ENABLE_PROJ, code, origin, env)
          IN  geo' = r.g /\ LogCall("InitFromEPSG", r)
    /\ UNCHANGED <<convVars, ENABLE_PROJ, b3dmVars, batchVars>>

\* coord_init_enu
coord_init_enu ==
    /\ Len(callLog) < MaxGeoCalls
    /\ \E ll \in {<<120, 36>>}, origin \in {<<500, 3450, 10>>, NullArg}, env \in Envs :
          LET r == InitFromENU(geo, ENABLE_PROJ, ll[1], ll[2], origin, env)
          IN  geo' = r.g /\ LogCall("InitFromENU", r)
    /\ UNCHANGED <<convVars, ENABLE_PROJ, b3dmVars, batchVars>>

\* coord_init_wkt
coord_init_wkt ==
    /\ Len(callLog) < MaxGeoCalls
    /\ \E wkt \in {<<"PROJCS">>, NullArg}, origin \in {<<500, 3450, 10>>, NullArg}, env \in Envs :
          LET r == InitFromWKT(geo, ENABLE_PROJ, wkt, origin, env)
          IN  geo' = r.g /\ LogCall("InitFromWKT", r)
    /\ UNCHANGED <<convVars, ENABLE_PROJ, b3dmVars, batchVars>>

\* coord_cleanup
coord_cleanup ==
    /\ Len(callLog) < MaxGeoCalls
    /\ geo' = Cleanup(geo)
    /\ callLog' = Append(callLog, [op |-> "Cleanup", ok |-> TRUE, err |-> EmptyStr])
    /\ UNCHANGED <<convVars, ENABLE_PROJ, b3dmVars, batchVars>>

InitGeo == GeoStart /\ B3dmIdle /\ BatchIdle /\ ConvIdle

\* the GeoTransform C API driven by an arbitrary caller
SpecGeo ==
    InitGeo /\ [][coord_init_epsg \/ coord_init_enu \/ coord_init_wkt \/ coord_cleanup]_vars

\* ------------------------------------------------------------------------
\* ToB3DMBuf as DoTileJob calls it: on a fresh, empty std::string b3dm_buf
\* ------------------------------------------------------------------------
InitB3dm ==
    /\ ENABLE_PROJ = TRUE /\ geo = GeoTransformStatics /\ callLog = << >>
    /\ glb_ok \in BOOLEAN
    /\ glb_buf \in SeqsUpTo({0, 255}, MaxGlbLen)
    /\ b3dm_buf = << >>
    /\ b3dm_ret = FALSE
    /\ b3dm_pc = "call"
    /\ BatchIdle /\ ConvIdle

CallToB3DMBuf ==
    /\ b3dm_pc = "call"
    /\ LET r == ToB3DMBuf(b3dm_buf, glb_ok, glb_buf)
       IN  b3dm_buf' = r.b3dm_buf /\ b3dm_ret' = r.ret
    /\ b3dm_pc' = "done"
    /\ UNCHANGED <<convVars, geoVars, glb_ok, glb_buf, batchVars>>

SpecB3dm == InitB3dm /\ [][CallToB3DMBuf]_vars

\* ------------------------------------------------------------------------
\* OSGB23dTiles::ToB3DMBatch
\* ------------------------------------------------------------------------
\* strOutputDir
out_path == "out"

TileInfo(name, output) ==
    [tile_name |-> name, osgb_path |-> name \o ".osgb", output_path |-> output,
     bbox |-> EmptyBox]

\* step 5 of ToB3DMBatch: the TileInfo list of the dataset
CollectTiles(oblique, layout) ==
    IF oblique
    THEN [i \in 1..layout.tileDirs |->
              TileInfo("Tile_" \o ToString(i),
                       out_path \o "/Data/" \o "Tile_" \o ToString(i))]
    ELSE IF layout.rootOsgb
    THEN <<TileInfo("input", out_path \o "/input")>>
    ELSE LET usable == SelectSeq([i \in 1..Len(layout.folders) |-> i],
                                 LAMBDA i : layout.folders[i])
         IN  [k \in 1..Len(usable) |->
                  TileInfo("Folder_" \o ToString(usable[k]),
                           out_path \o "/" \o "Folder_" \o ToString(usable[k]))]

Tasks == 1..Len(tiles)
TilesetPath(i) == tiles[i].output_path \o "/tileset.json"
WriteFile(fs, path, content) ==
    [q \in DOMAIN fs \cup {path} |-> IF q = path THEN content ELSE fs[q]]

\* the condition "result.success && !result.tilesetJson.empty()"
Converted(result) == result.success /\ result.tilesetJson # EmptyStr

\* steps 1 to 5: metadata, GeoTransform initialisation, data source detection,
\* tile collection, with the two early "return false"
BatchSetup ==
    /\ bpc = "call"
    \* layout is what the directory scans find: is there a Data directory, how
    \* many Tile_* directories it holds, whether the input directory itself
    \* holds OSGB files, and for each sub-folder whether an OSGB file can be
    \* picked in it
    /\ \E md \in Metadatas, c \in {<<1, 2>>}, env \in Envs,
          layout \in [hasDataDir : BOOLEAN, tileDirs : 0..MaxTiles, rootOsgb : BOOLEAN,
                      folders : SeqsUpTo(BOOLEAN, MaxTiles)] :
         LET origin == <<md.dOffsetX, md.dOffsetY, md.dOffsetZ>>
             r == IF ~md.parsed THEN [g |-> geo, ret |-> FALSE]
                  ELSE IF md.bIsENU
                  THEN InitFromENU(geo, ENABLE_PROJ, md.dCenterLon, md.dCenterLat, origin, env)
                  ELSE IF md.bIsEPSG
                  THEN InitFromEPSG(geo, ENABLE_PROJ, md.nEpsgCode, origin, env)
                  ELSE IF md.bIsWKT
                  THEN InitFromWKT(geo, ENABLE_PROJ, md.strSrs, origin, env)
                  ELSE [g |-> geo, ret |-> FALSE]
             oblique == layout.hasDataDir /\ md.parsed
             found == CollectTiles(oblique, layout)
         IN  /\ has_metadata' = md.parsed
             /\ metadata' = md
             /\ geo' = r.g
             /\ initTried' =
                    IF ~md.parsed THEN [srs |-> "none", ok |-> FALSE, noCrs |-> FALSE]
                    ELSE [srs |-> IF md.bIsENU THEN "ENU" ELSE IF md.bIsEPSG THEN "EPSG"
                                  ELSE "WKT",
                          ok |-> r.ret,
                          noCrs |-> ENABLE_PROJ /\ env.ctxOk /\ ~env.crsOk
                                    /\ (md.bIsWKT => env.srcOk /\ env.dstOk)]
             \* the center stays the argument unless the initialisation succeeded
             /\ dCenterX' = IF ~r.ret THEN c[1]
                            ELSE IF md.bIsENU THEN md.dCenterLon ELSE origin[1]
             /\ dCenterY' = IF ~r.ret THEN c[2]
                            ELSE IF md.bIsENU THEN md.dCenterLat ELSE origin[2]
             /\ is_oblique_data' = oblique
             /\ tiles' = found
             /\ tpc' = [i \in 1..Len(found) |-> "todo"]
             /\ tres' = [i \in 1..Len(found) |-> FailedResult]
             /\ wasEmpty' = [i \in 1..Len(found) |-> FALSE]
             /\ corrected' = [i \in 1..Len(found) |-> FALSE]
             /\ IF found = << >>
                THEN bpc' = "returned" /\ retval' = FALSE
                ELSE bpc' = "parallel" /\ UNCHANGED retval
    /\ UNCHANGED <<convVars, ENABLE_PROJ, callLog, b3dmVars, tile_jsons, global_bbox, rootNode,
                   owner, files, batch_calls>>

\* one loop iteration calls ToB3DM; a failed tile is only logged. InfoVisitor
\* visits the geometries of a converted tile and corrects their vertices
\* under "if (GeoTransform::projTransform)".
TileToB3DM(i) ==
    /\ bpc = "parallel" /\ tpc[i] = "todo"
    /\ \E result \in ToB3DMResults(tiles[i].tile_name) :
         /\ tres' = [tres EXCEPT ![i] = result]
         /\ tpc' = [tpc EXCEPT ![i] = IF Converted(result) THEN "enter" ELSE "failed"]
         /\ corrected' = [corrected EXCEPT
                              ![i] = Converted(result) /\ geo.projTransform # NullPJ]
    /\ UNCHANGED <<convVars, geoVars, b3dmVars, bpc, batchLocals, tiles, tile_jsons, global_bbox,
                   rootNode, retval, wasEmpty, owner, files, batch_calls>>

\* the iteration enters critical(data_update)
TileEnter(i) ==
    /\ bpc = "parallel" /\ tpc[i] = "enter"
    /\ CriticalFree(owner)
    /\ owner' = i
    /\ tpc' = [tpc EXCEPT ![i] = "emplace"]
    /\ UNCHANGED <<convVars, geoVars, b3dmVars, bpc, batchLocals, tiles, tile_jsons, global_bbox,
                   rootNode, retval, tres, wasEmpty, files,
                   corrected, batch_calls>>

\* tile_jsons.emplace_back(result.tilesetJson) and the two tile.bbox assignments
TileRecord(i) ==
    /\ bpc = "parallel" /\ tpc[i] = "emplace"
    /\ tile_jsons' = Append(tile_jsons, tres[i].tilesetJson)
    /\ tiles' = [tiles EXCEPT ![i].bbox = BoxOfResult(tres[i])]
    /\ tpc' = [tpc EXCEPT ![i] = "check"]
    /\ UNCHANGED <<convVars, geoVars, b3dmVars, bpc, batchLocals, global_bbox, rootNode, retval,
                   tres, wasEmpty, owner, files,
                   corrected, batch_calls>>

\* the test "if (global_bbox.max.empty())"
TileCheck(i) ==
    /\ bpc = "parallel" /\ tpc[i] = "check"
    /\ wasEmpty' = [wasEmpty EXCEPT ![i] = (global_bbox.max = << >>)]
    /\ tpc' = [tpc EXCEPT ![i] = "merge"]
    /\ UNCHANGED <<convVars, geoVars, b3dmVars, bpc, batchLocals, tiles, tile_jsons, global_bbox,
                   rootNode, retval, tres, owner, files,
                   corrected, batch_calls>>

\* the branch taken on that test, then the end of the critical section
TileMerge(i) ==
    /\ bpc = "parallel" /\ tpc[i] = "merge"
    /\ global_bbox' = IF wasEmpty[i] THEN tiles[i].bbox
                      ELSE ExpandBox(global_bbox, tiles[i].bbox)
    /\ owner' = IF owner = i THEN 0 ELSE owner
    /\ tpc' = [tpc EXCEPT ![i] = "write"]
    /\ UNCHANGED <<convVars, geoVars, b3dmVars, bpc, batchLocals, tiles, tile_jsons, rootNode,
                   retval, tres, wasEmpty, files,
                   corrected, batch_calls>>

\* the wrapped tile JSON is saved as the tile's own tileset.json
TileWrite(i) ==
    /\ bpc = "parallel" /\ tpc[i] = "write"
    /\ files' = WriteFile(files, TilesetPath(i), WrappedJson(tres[i].tilesetJson))
    /\ tpc' = [tpc EXCEPT ![i] = "done"]
    /\ UNCHANGED <<convVars, geoVars, b3dmVars, bpc, batchLocals, tiles, tile_jsons, global_bbox,
                   rootNode, retval, tres, wasEmpty, owner,
                   corrected, batch_calls>>

\* the child entries of the dataset-root node: one per element of tiles
RootChildren ==
    [i \in 1..Len(tiles) |->
        [NoNode EXCEPT !.geometricError = 1000,
                       !.boundingVolume = BoundingVolumeFromTileBox(tiles[i].bbox),
                       !.contentUri = IF is_oblique_data
                                      THEN "./Data/" \o tiles[i].tile_name \o "/tileset.json"
                                      ELSE "./" \o tiles[i].tile_name \o "/tileset.json"]]

\* after the loop has joined: steps 6 to 9, or "return false" when no tile converted
BatchFinish ==
    /\ bpc = "parallel"
    /\ \A i \in Tasks : tpc[i] \in {"done", "failed"}
    /\ bpc' = "returned"
    /\ IF ~BatchSucceeded(tile_jsons)
       THEN /\ retval' = FALSE
            /\ UNCHANGED <<geo, rootNode, files>>
       ELSE LET height_min == IF global_bbox.min = << >> THEN 0 ELSE global_bbox.min[3]
                transform_matrix ==
                    IF has_metadata /\ metadata.bIsENU
                    THEN TransformCWithEnuOffset(dCenterX, dCenterY, height_min,
                             metadata.dOffsetX, metadata.dOffsetY, metadata.dOffsetZ)
                    ELSE TransformC(dCenterX, dCenterY, height_min)
                node == [NoNode EXCEPT !.geometricError = 2000,
                             !.boundingVolume = BoundingVolumeFromTileBox(global_bbox),
                             !.transform = transform_matrix,
                             !.children = RootChildren]
            IN  /\ rootNode' = node
                /\ files' = WriteFile(files, (out_path \o "/tileset.json"), TilesetNodeToJson(node))
                /\ geo' = Cleanup(geo)
                /\ retval' = TRUE
    /\ UNCHANGED <<convVars, ENABLE_PROJ, callLog, b3dmVars, batchLocals, tiles, tile_jsons,
                   global_bbox, taskVars, batch_calls>>

\* the process calls ToB3DMBatch again: the locals are new, the static
\* members of GeoTransform are what the call before left
BatchAgain ==
    /\ bpc = "returned"
    /\ batch_calls < MaxBatchCalls
    /\ batch_calls' = batch_calls + 1
    /\ bpc' = "call"
    /\ has_metadata' = FALSE /\ metadata' = NoMetadata
    /\ initTried' = [srs |-> "none", ok |-> FALSE, noCrs |-> FALSE]
    /\ dCenterX' = 0 /\ dCenterY' = 0 /\ is_oblique_data' = FALSE
    /\ tiles' = << >> /\ tile_jsons' = << >> /\ global_bbox' = EmptyBox
    /\ rootNode' = NoNode /\ retval' = FALSE
    /\ tpc' = << >> /\ tres' = << >> /\ wasEmpty' = << >> /\ owner' = 0
    /\ corrected' = << >>
    /\ files' = [path \in {} |-> << >>]
    /\ UNCHANGED <<convVars, geoVars, b3dmVars>>

InitBatch ==
    /\ GeoStart /\ B3dmIdle /\ ConvIdle
    /\ bpc = "call" /\ batch_calls = 1 /\ BatchEntry

NextBatch ==
    \/ BatchSetup
    \/ \E i \in Tasks : TileToB3DM(i)
    \/ \E i \in Tasks : TileEnter(i)
    \/ \E i \in Tasks : TileRecord(i)
    \/ \E i \in Tasks : TileCheck(i)
    \/ \E i \in Tasks : TileMerge(i)
    \/ \E i \in Tasks : TileWrite(i)
    \/ BatchFinish
    \/ BatchAgain

\* the ToB3DMBatch calls of a process; the loop iterations run as parallel tasks
SpecBatch == InitBatch /\ [][NextBatch]_vars

\* ------------------------------------------------------------------------
\* OSGBTools::ParseMetadataXml
\* ------------------------------------------------------------------------

\* position of the first character of str that is one of chars, 0 if none
FirstPos(str, chars) ==
    IF \E i \in 1..Len(str) : str[i] \in chars
    THEN CHOOSE i \in 1..Len(str) :
             str[i] \in chars /\ \A j \in 1..(i - 1) : str[j] \notin chars
    ELSE 0

\* extractXmlTag: the text of the first element with that tag, "" if none
extractXmlTag(xml, tag) ==
    IF \E i \in 1..Len(xml) : xml[i].tag = tag
    THEN xml[CHOOSE i \in 1..Len(xml) :
                 xml[i].tag = tag /\ \A j \in 1..(i - 1) : xml[j].tag # tag].text
    ELSE << >>

\* split: std::getline until the stream is exhausted, so a delimiter at the
\* very end of str is not followed by an empty token
RECURSIVE split(_, _)
split(str, delimiter) ==
    IF str = << >> THEN << >>
    ELSE LET i == FirstPos(str, {delimiter})
         IN  IF i = 0 THEN <<str>>
             ELSE <<SubSeq(str, 1, i - 1)>> \o split(SubSeq(str, i + 1, Len(str)), delimiter)

\* trim
trim(str) ==
    LET keep == {i \in 1..Len(str) : str[i] \notin {" ", "\t", "\r", "\n"}}
    IN  IF keep = {} THEN << >>
        ELSE SubSeq(str, CHOOSE i \in keep : \A j \in keep : i <= j,
                         CHOOSE i \in keep : \A j \in keep : i >= j)

\* the value of the longest run of digits str starts with
RECURSIVE DigitsValue(_, _)
DigitsValue(str, acc) ==
    IF str = << >> \/ ~(\E d \in 0..9 : ToString(d) = Head(str)) THEN acc
    ELSE DigitsValue(Tail(str), acc * 10 + (CHOOSE d \in 0..9 : ToString(d) = Head(str)))

\* std::stod / std::stoi on the number formats the model feeds them: an
\* optional sign and digits; anything after the number is ignored, and a text
\* that does not start with a number throws (ok = FALSE)
ParseNumber(str) ==
    LET neg == str # << >> /\ Head(str) = "-"
        body == IF neg THEN Tail(str) ELSE str
    IN  IF body = << >> \/ ~(\E d \in 0..9 : ToString(d) = Head(body)) THEN [ok |-> FALSE, val |-> 0]
        ELSE [ok |-> TRUE,
              val |-> IF neg THEN 0 - DigitsValue(body, 0) ELSE DigitsValue(body, 0)]

\* the SRS branch of ParseMetadataXml: [ret, m]
ParseSrs(m) ==
    LET srsParts == split(m.strSrs, ":")
        srsType == trim(srsParts[1])
    IN  IF Len(srsParts) >= 2
        THEN IF srsType = <<"E", "N", "U">>
             THEN LET coords == split(srsParts[2], ",")
                      lat == ParseNumber(trim(coords[1]))
                      lon == ParseNumber(trim(coords[2]))
                      enu == [m EXCEPT !.bIsENU = TRUE]
                  IN  IF Len(coords) >= 2
                      THEN IF ~lat.ok THEN [ret |-> FALSE, m |-> enu]
                           ELSE IF ~lon.ok
                           THEN [ret |-> FALSE, m |-> [enu EXCEPT !.dCenterLat = lat.val]]
                           ELSE [ret |-> TRUE,
                                 m |-> [enu EXCEPT !.dCenterLat = lat.val,
                                                   !.dCenterLon = lon.val]]
                      ELSE [ret |-> FALSE, m |-> enu]
             ELSE IF srsType = <<"E", "P", "S", "G">>
             THEN LET code == ParseNumber(trim(srsParts[2]))
                      epsg == [m EXCEPT !.bIsEPSG = TRUE]
                  IN  IF code.ok
                      THEN [ret |-> TRUE, m |-> [epsg EXCEPT !.nEpsgCode = code.val]]
                      ELSE [ret |-> FALSE, m |-> epsg]
             ELSE [ret |-> TRUE, m |-> [m EXCEPT !.bIsWKT = TRUE]]
        ELSE [ret |-> TRUE, m |-> [m EXCEPT !.bIsWKT = TRUE]]

\* the SRSOrigin branch of ParseMetadataXml: [ret, m]
ParseSrsOrigin(m) ==
    LET originParts == split(m.strSrsOrigin, ",")
        x == ParseNumber(trim(originParts[1]))
        y == ParseNumber(trim(originParts[2]))
        z == ParseNumber(trim(originParts[3]))
    IN  IF Len(originParts) >= 2
        THEN IF ~x.ok THEN [ret |-> FALSE, m |-> m]
             ELSE IF ~y.ok THEN [ret |-> FALSE, m |-> [m EXCEPT !.dOffsetX = x.val]]
             ELSE LET xy == [m EXCEPT !.dOffsetX = x.val, !.dOffsetY = y.val]
                  IN  IF Len(originParts) >= 3
                      THEN IF z.ok THEN [ret |-> TRUE, m |-> [xy EXCEPT !.dOffsetZ = z.val]]
                           ELSE [ret |-> FALSE, m |-> xy]
                      ELSE [ret |-> TRUE, m |-> xy]
        ELSE [ret |-> FALSE, m |-> m]

\* ParseMetadataXml(strXmlPath, outMetadata): [ret, m]
ParseMetadataXml(file, m) ==
    IF ~file.open THEN [ret |-> FALSE, m |-> m]
    ELSE LET version == extractXmlTag(file.elements, "ModelMetadata version")
             m1 == [m EXCEPT !.strVersion = IF version = << >> THEN <<"1">> ELSE version]
             m2 == [m1 EXCEPT !.strSrs = extractXmlTag(file.elements, "SRS")]
             m3 == [m2 EXCEPT !.strSrsOrigin = extractXmlTag(file.elements, "SRSOrigin")]
             srs == ParseSrs(m3)
         IN  IF m2.strSrs = << >> THEN [ret |-> FALSE, m |-> m2]
             ELSE IF m3.strSrsOrigin = << >> THEN [ret |-> FALSE, m |-> m3]
             ELSE IF ~srs.ret THEN srs
             ELSE ParseSrsOrigin(srs.m)

\* texts of the <SRS> element: a head, then nothing or ':' and a tail
SrsTexts ==
    LET heads == {<<"E", "N", "U">>, <<" ", "E", "N", "U", " ">>, <<"E", "P", "S", "G">>,
                  <<"e", "n", "u">>, <<"E", "N", "U", "X">>, <<"P", "R", "O", "J">>, << >>}
        tails == {<< >>, <<"3", "6", ",", "1", "2", "0">>, <<"4", "5", "4", "7">>,
                  <<" ", "4", "5", "4", "7", "\n">>, <<"3", "6">>, <<"x">>, <<"0", ",", "x">>,
                  <<"1", ":", "2">>}
    IN  heads \cup {h \o <<":">> \o t : h \in heads, t \in tails}
\* metadata.xml files: unreadable, or with or without either element
XmlFiles ==
    {[open |-> FALSE, elements |-> << >>]} \cup
    {[open |-> TRUE, elements |-> srs \o org] :
        srs \in {<< >>} \cup {<<[tag |-> "SRS", text |-> t]>> : t \in SrsTexts},
        org \in {<< >>} \cup
                {<<[tag |-> "SRSOrigin", text |-> t]>> :
                    t \in {<<"5", ",", "7", ",", "9">>, <<"-", "0", ",", "-", "0">>, <<"5">>,
                           <<"a", ",", "7">>, <<"5", ",", "7", ",", "z">>}}}

InitMeta ==
    /\ GeoStart /\ ENABLE_PROJ = TRUE /\ B3dmIdle /\ BatchIdle /\ LodIdle /\ GlbIdle
    /\ ReadIdle
    /\ xml_file \in XmlFiles
    /\ outMetadata = OSGBMetadata
    /\ parse_ret = FALSE
    /\ mpc = "call"

\* ToB3DMBatch's call: ParseMetadataXml(metadata_path, metadata) on a fresh struct
CallParseMetadataXml ==
    /\ mpc = "call"
    /\ LET r == ParseMetadataXml(xml_file, outMetadata)
       IN  outMetadata' = r.m /\ parse_ret' = r.ret
    /\ mpc' = "done"
    /\ UNCHANGED <<geoVars, b3dmVars, batchVars, lodVars, glbVars, readVars, xml_file>>

SpecMeta == InitMeta /\ [][CallParseMetadataXml]_vars

\* ------------------------------------------------------------------------
\* OSGB23dTiles::ToB3DM: the LOD tree of one root tile
\* ------------------------------------------------------------------------
\* the sequence of the elements of a set of numbers, ascending
RECURSIVE Ascending(_)
Ascending(S) ==
    IF S = {} THEN << >>
    ELSE LET least == CHOOSE x \in S : \A y \in S : x <= y
         IN  <<least>> \o Ascending(S \ {least})

RECURSIVE Depth(_, _)
Depth(p, f) == IF f = 1 THEN 0 ELSE 1 + Depth(p, p[f])

\* what reading a file gives: does osgDB::readNodeFiles load it, the drawables
\* InfoVisitor puts in geometry_array and in other_geometry_array, and whether
\* a GLB can be built from them
Scenes ==
    {[loads |-> FALSE, geometry_array |-> << >>, other_geometry_array |-> << >>,
      glbOk |-> FALSE],
     [loads |-> TRUE, geometry_array |-> << >>, other_geometry_array |-> << >>,
      glbOk |-> FALSE]}
    \cup {[loads |-> TRUE, geometry_array |-> g[1], other_geometry_array |-> g[2],
           glbOk |-> ok] :
            g \in {<< << >>, <<"o">> >>, << <<"g">>, << >> >>, << <<"g">>, <<"o">> >>},
            ok \in BOOLEAN}

\* the files of a tile: for each file its scene, the child files its PagedLOD
\* nodes name (InfoVisitor::sub_node_names) and the level in its name: the
\* root file name has no "_L", a file d references below it is "..._L<d>_..."
OsgbFiles(p, scene) ==
    [f \in 1..MaxFiles |->
        [loads |-> scene[f].loads,
         geometry_array |-> scene[f].geometry_array,
         other_geometry_array |-> scene[f].other_geometry_array,
         glbOk |-> scene[f].glbOk,
         sub_node_names |-> Ascending({c \in 2..MaxFiles : p[c] = f}),
         lvl |-> IF f = 1 THEN -1 ELSE Depth(p, f)]]

\* OSGBTools::GetLvlNum finding no level in any file name
GetLvlNum_NoLevel(fs, file_name) == -1

\* OSGBTools::GetLvlNum of a file name
GetLvlNum(fs, file_name) == fs[file_name].lvl

\* GetAllTree wrapping the paged node and the other drawables in separate
\* nodes, the other drawables first
SplitRoot_OtherFirst(root_tile, file_name) ==
    [OSGTree EXCEPT !.type = 0, !.file_name = file_name,
                    !.sub_nodes = <<[OSGTree EXCEPT !.type = 2, !.file_name = file_name],
                                    root_tile>>]

\* GetAllTree: the new root over the paged node and the node of the other drawables
SplitRoot(root_tile, file_name) ==
    [OSGTree EXCEPT !.type = 0, !.file_name = file_name,
                    !.sub_nodes = <<root_tile,
                                    [OSGTree EXCEPT !.type = 2, !.file_name = file_name]>>]

\* the loop of GetAllTree over sub_node_names, ended by the first child that
\* fails to load
RECURSIVE GetAllTree(_, _), ReadSubNodes(_, _, _), ReadSubNodes_StopsAtFailure(_, _, _)
RECURSIVE ReadSubNodes_KeepsRootKind(_, _, _)
ReadSubNodes_StopsAtFailure(fs, names, acc) ==
    IF names = << >> THEN acc
    ELSE LET r == GetAllTree(fs, Head(names))
             tree == r.tree
             sofar == [sub_nodes |-> acc.sub_nodes, reads |-> acc.reads \o r.reads]
         IN  IF tree.file_name = NoFileName THEN sofar
             ELSE ReadSubNodes_StopsAtFailure(fs, Tail(names),
                      [sofar EXCEPT !.sub_nodes =
                          IF tree.type = 0 THEN acc.sub_nodes \o tree.sub_nodes
                          ELSE Append(acc.sub_nodes, tree)])

\* the loop of GetAllTree over sub_node_names appending every child as it is
ReadSubNodes_KeepsRootKind(fs, names, acc) ==
    IF names = << >> THEN acc
    ELSE LET r == GetAllTree(fs, Head(names))
         IN  ReadSubNodes_KeepsRootKind(fs, Tail(names),
                 [sub_nodes |-> IF r.tree.file_name # NoFileName
                                THEN Append(acc.sub_nodes, r.tree)
                                ELSE acc.sub_nodes,
                  reads |-> acc.reads \o r.reads])

\* the loop of GetAllTree over sub_node_names: acc holds root_tile.sub_nodes
\* and the files read so far
ReadSubNodes(fs, names, acc) ==
    IF names = << >> THEN acc
    ELSE LET r == GetAllTree(fs, Head(names))
             tree == r.tree
         IN  ReadSubNodes(fs, Tail(names),
                 [sub_nodes |-> IF tree.file_name # NoFileName
                                THEN IF tree.type = 0
                                     THEN acc.sub_nodes \o tree.sub_nodes
                                     ELSE Append(acc.sub_nodes, tree)
                                ELSE acc.sub_nodes,
                  reads |-> acc.reads \o r.reads])

\* GetAllTree(file_name): the tree and the files read on the way
GetAllTree(fs, file_name) ==
    IF ~fs[file_name].loads THEN [tree |-> OSGTree, reads |-> <<file_name>>]
    ELSE LET subs == ReadSubNodes(fs, fs[file_name].sub_node_names,
                                  [sub_nodes |-> << >>, reads |-> <<file_name>>])
             root_tile == [OSGTree EXCEPT !.file_name = file_name, !.type = 1,
                                          !.sub_nodes = subs.sub_nodes]
         IN  [tree |-> IF /\ fs[file_name].other_geometry_array # << >>
                          /\ fs[file_name].geometry_array # << >>
                       THEN SplitRoot(root_tile, file_name)
                       ELSE root_tile,
              reads |-> subs.reads]

\* does ToGLBBuf(path, ..., node_type, ...) build a GLB: the drawables it picks
\* for the node type are not empty and the GLB is written to the stream
ToGLBBufOk(fs, path, node_type) ==
    LET geometry_array == IF node_type = 2 \/ fs[path].geometry_array = << >>
                          THEN fs[path].other_geometry_array
                          ELSE fs[path].geometry_array
    IN  fs[path].loads /\ geometry_array # << >> /\ fs[path].glbOk

\* the MeshInfo box ToGLBBuf reports for the drawables of a node; coordinates
\* are multiples of 20, so that the divisions of the box arithmetic are exact
MeshBox(path, node_type) ==
    [max |-> <<20 * path + 20, 20 * path, 20 * node_type>>, min |-> <<20 * path, 0, 0>>]

\* OSGBTools::Replace(GetFileName(file_name), ".osgb", type != 2 ? ".b3dm" : "o.b3dm")
B3dmName(file_name, type) ==
    ToString(file_name) \o (IF type # 2 THEN ".b3dm" ELSE "o.b3dm")

\* DoTileJob(tree, out_path, max_lvl, ...): the tree with the boxes of the
\* B3DMs built, and the names of the B3DM files written
RECURSIVE DoTileJob(_, _, _)
DoTileJob(fs, tree, maxl) ==
    IF tree.file_name = NoFileName THEN [tree |-> tree, written |-> {}]
    ELSE IF maxl # -1 /\ GetLvlNum(fs, tree.file_name) > maxl
    THEN [tree |-> tree, written |-> {}]
    ELSE LET built == tree.type > 0 /\ ToGLBBufOk(fs, tree.file_name, tree.type)
             subs == [i \in 1..Len(tree.sub_nodes) |-> DoTileJob(fs, tree.sub_nodes[i], maxl)]
         IN  [tree |-> [tree EXCEPT
                          !.bbox = IF built THEN MeshBox(tree.file_name, tree.type) ELSE @,
                          !.sub_nodes = [i \in 1..Len(tree.sub_nodes) |-> subs[i].tree]],
              written |-> (IF built THEN {B3dmName(tree.file_name, tree.type)} ELSE {})
                          \cup UNION {subs[i].written : i \in 1..Len(tree.sub_nodes)}]

\* ExpandBox applied to the boxes of a sequence of nodes in turn
RECURSIVE ExpandAll(_, _)
ExpandAll(box, nodes) ==
    IF nodes = << >> THEN box
    ELSE ExpandAll(ExpandBox(box, Head(nodes).bbox), Tail(nodes))

\* ExtendTileBox that leaves the box of a node as DoTileJob set it
RECURSIVE ExtendTileBox_KeepsOwnBox(_)
ExtendTileBox_KeepsOwnBox(tree) ==
    [tree EXCEPT !.sub_nodes = [i \in 1..Len(tree.sub_nodes) |->
                                   ExtendTileBox_KeepsOwnBox(tree.sub_nodes[i])]]

\* ExtendTileBox(tree): the tree with every box extended by the boxes below it
RECURSIVE ExtendTileBox(_)
ExtendTileBox(tree) ==
    LET subs == [i \in 1..Len(tree.sub_nodes) |-> ExtendTileBox(tree.sub_nodes[i])]
    IN  [tree EXCEPT !.sub_nodes = subs, !.bbox = ExpandAll(tree.bbox, subs)]

\* the lambda GetGeometricError without the z extent
GetGeometricError_IgnoresZ(bbox) ==
    IF bbox.max = << >> \/ bbox.min = << >> THEN 0
    ELSE LET dx == bbox.max[1] - bbox.min[1]
             dy == bbox.max[2] - bbox.min[2]
         IN  (IF dx >= dy THEN dx ELSE dy) \div 20

\* the lambda GetGeometricError of CalcGeometricError
GetGeometricError(bbox) ==
    IF bbox.max = << >> \/ bbox.min = << >> THEN 0
    ELSE LET dx == bbox.max[1] - bbox.min[1]
             dy == bbox.max[2] - bbox.min[2]
             dz == bbox.max[3] - bbox.min[3]
             max_err == IF dx >= dy THEN dx ELSE dy
         IN  (IF max_err >= dz THEN max_err ELSE dz) \div 20

\* how a node is told from the others of its tree
NodeKey(tree) == <<tree.file_name, tree.type>>

\* the assignment orders of the sub-trees, one after the other
RECURSIVE JoinOrders(_)
JoinOrders(subs) ==
    IF subs = << >> THEN << >> ELSE Head(subs).order \o JoinOrders(Tail(subs))

\* CalcGeometricError(tree): the tree with the errors set, and the nodes in
\* the order their geometricError was assigned
RECURSIVE CalcGeometricError(_)
CalcGeometricError(tree) ==
    LET n == Len(tree.sub_nodes)
        subs == [i \in 1..n |-> CalcGeometricError(tree.sub_nodes[i])]
        sub_nodes == [i \in 1..n |-> subs[i].tree]
        \* const double EPS = 1e-12: for whole numbers abs(e) > EPS is abs(e) > 0
        nonzero == {i \in 1..n : LET e == sub_nodes[i].geometricError
                                  IN  (IF e < 0 THEN 0 - e ELSE e) > 0}
        has == nonzero # {}
        leaf == sub_nodes[CHOOSE i \in nonzero : \A j \in nonzero : j <= i]
        err == IF n = 0 THEN 0
               ELSE IF has = FALSE THEN GetGeometricError(tree.bbox)
               ELSE leaf.geometricError * 2
    IN  [tree |-> [tree EXCEPT !.sub_nodes = sub_nodes, !.geometricError = err],
         order |-> Append(JoinOrders(subs), NodeKey(tree))]

\* the loop of EncodeTileJSON over the children: json with child_json + ","
\* appended for every child that has a JSON
RECURSIVE EncodeTileJSON(_), EncodeChildren(_, _)
EncodeChildren(json, sub_nodes) ==
    IF sub_nodes = << >> THEN json
    ELSE LET child_json == EncodeTileJSON(Head(sub_nodes))
         IN  EncodeChildren(IF child_json # EmptyStr THEN json \o child_json \o <<",">>
                            ELSE json,
                            Tail(sub_nodes))

\* EncodeTileJSON(tree, x, y): the JSON as the pieces appended to it
EncodeTileJSON(tree) ==
    IF tree.bbox.max = << >> \/ tree.bbox.min = << >> THEN EmptyStr
    ELSE LET contentUri == IF tree.type > 0
                           THEN "./" \o B3dmName(tree.file_name, tree.type)
                           ELSE ""
             head == <<"{", "\"geometricError\":", ToString(tree.geometricError), ",">>
                     \* BoundingVolume::ToJson of the box
                     \o <<"\"boundingVolume\":{\"box\":[", ToString(tree.bbox.max),
                          ToString(tree.bbox.min), "]}">>
             content == IF contentUri # ""
                        THEN <<",\"content\":{\"uri\":\"", contentUri, "\"}">>
                        ELSE << >>
             json == EncodeChildren(head \o content \o <<",\"children\":[">>, tree.sub_nodes)
         IN  (IF json[Len(json)] = "," THEN SubSeq(json, 1, Len(json) - 1) ELSE json)
             \o <<"]}">>

\* TileBox::extend(ratio), ratio given in percent
TileBoxExtend(box, ratio) ==
    LET half == ratio \div 2
        grow == [i \in 1..3 |-> ((box.max[i] - box.min[i]) * half) \div 100]
    IN  [max |-> [i \in 1..3 |-> box.max[i] + grow[i]],
         min |-> [i \in 1..3 |-> box.min[i] - grow[i]]]

InitLod ==
    /\ GeoStart /\ ENABLE_PROJ = TRUE /\ B3dmIdle /\ BatchIdle /\ MetaIdle /\ GlbIdle
    /\ ReadIdle
    \* file 1 is the root file of the tile, every other file is referenced by
    \* one PagedLOD of an earlier file
    /\ \E p \in {q \in [2..MaxFiles -> 1..MaxFiles] : \A i \in 2..MaxFiles : q[i] < i},
          scene \in [1..MaxFiles -> Scenes] : osgb = OsgbFiles(p, scene)
    /\ max_lvl \in {-1, 0, 1}
    /\ root = OSGTree /\ reads = << >> /\ b3dm_files = {} /\ calcOrder = << >>
    /\ b3dm_result = FailedResult
    /\ lod_pc = "GetAllTree"

\* OSGTree root = GetAllTree(path); if (root.file_name.empty()) return result;
ToB3DM_GetAllTree ==
    /\ lod_pc = "GetAllTree"
    /\ LET r == GetAllTree(osgb, 1)
       IN  /\ root' = r.tree
           /\ reads' = r.reads
           /\ lod_pc' = IF r.tree.file_name = NoFileName THEN "returned" ELSE "DoTileJob"
    /\ UNCHANGED <<geoVars, b3dmVars, batchVars, metaVars, glbVars, readVars, osgb, max_lvl,
                   b3dm_files,
                   calcOrder, b3dm_result>>

\* DoTileJob(root, strOutPath, nMaxLevel, ...)
ToB3DM_DoTileJob ==
    /\ lod_pc = "DoTileJob"
    /\ LET r == DoTileJob(osgb, root, max_lvl)
       IN  root' = r.tree /\ b3dm_files' = r.written
    /\ lod_pc' = "ExtendTileBox"
    /\ UNCHANGED <<geoVars, b3dmVars, batchVars, metaVars, glbVars, readVars, osgb, max_lvl, reads,
                   calcOrder, b3dm_result>>

\* ExtendTileBox(root); if (root.bbox.max.empty() || ...) return result;
ToB3DM_ExtendTileBox ==
    /\ lod_pc = "ExtendTileBox"
    /\ root' = ExtendTileBox(root)
    /\ lod_pc' = IF root'.bbox.max = << >> \/ root'.bbox.min = << >>
                 THEN "returned" ELSE "CalcGeometricError"
    /\ UNCHANGED <<geoVars, b3dmVars, batchVars, metaVars, glbVars, readVars, osgb, max_lvl, reads,
                   b3dm_files, calcOrder, b3dm_result>>

\* CalcGeometricError(root)
ToB3DM_CalcGeometricError ==
    /\ lod_pc = "CalcGeometricError"
    /\ LET r == CalcGeometricError(root)
       IN  root' = r.tree /\ calcOrder' = r.order
    /\ lod_pc' = "EncodeTileJSON"
    /\ UNCHANGED <<geoVars, b3dmVars, batchVars, metaVars, glbVars, readVars, osgb, max_lvl, reads,
                   b3dm_files, b3dm_result>>

\* root.geometricError = 1000.0; EncodeTileJSON; root.bbox.extend(0.2); return
ToB3DM_EncodeTileJSON ==
    /\ lod_pc = "EncodeTileJSON"
    /\ LET top == [root EXCEPT !.geometricError = 1000]
           strJson == EncodeTileJSON(top)
           bbox == TileBoxExtend(top.bbox, 20)
       IN  /\ root' = [top EXCEPT !.bbox = bbox]
           /\ b3dm_result' = [success |-> TRUE, tilesetJson |-> strJson,
                              boundingBox |-> bbox.max \o bbox.min]
    /\ lod_pc' = "returned"
    /\ UNCHANGED <<geoVars, b3dmVars, batchVars, metaVars, glbVars, readVars, osgb, max_lvl, reads,
                   b3dm_files, calcOrder>>

\* one ToB3DM call on the root file of a tile
SpecLod ==
    InitLod /\ [][\/ ToB3DM_GetAllTree
                  \/ ToB3DM_DoTileJob
                  \/ ToB3DM_ExtendTileBox
                  \/ ToB3DM_CalcGeometricError
                  \/ ToB3DM_EncodeTileJSON]_vars

\* ------------------------------------------------------------------------
\* ToB3DM from DoTileJob on, over the trees DoTileJob leaves
\* ------------------------------------------------------------------------
\* a tree and all the trees below it
RECURSIVE Nodes(_)
Nodes(tree) == {tree} \cup UNION {Nodes(tree.sub_nodes[i]) : i \in 1..Len(tree.sub_nodes)}

\* the trees of n paged nodes (the forests of k nodes whose first tree is the
\* i-th child of its parent), every node with the box of its own B3DM: none,
\* a small or a large one; the i-th child of file f is file 10 * f + i
RECURSIVE TreesOfSize(_, _), ForestsOfSize(_, _, _)
TreesOfSize(n, file_name) ==
    {[OSGTree EXCEPT !.type = 1, !.file_name = file_name, !.bbox = box, !.sub_nodes = subs] :
        box \in {EmptyBox, [max |-> <<20, 20, 20>>, min |-> <<0, 0, 0>>],
                 [max |-> <<100, 60, 20>>, min |-> <<0, 0, 0>>]},
        subs \in ForestsOfSize(n - 1, file_name, 1)}

ForestsOfSize(k, file_name, i) ==
    IF k = 0 THEN {<< >>}
    ELSE UNION {{<<tree>> \o rest : tree \in TreesOfSize(j, 10 * file_name + i),
                                    rest \in ForestsOfSize(k - j, file_name, i + 1)} :
                  j \in 1..k}

InitTree ==
    /\ GeoStart /\ ENABLE_PROJ = TRUE /\ B3dmIdle /\ BatchIdle /\ MetaIdle /\ GlbIdle
    /\ ReadIdle
    /\ root \in UNION {TreesOfSize(n, 1) : n \in 1..MaxNodes}
    /\ b3dm_files = {B3dmName(n.file_name, n.type) : n \in {x \in Nodes(root) : x.bbox # EmptyBox}}
    \* the files are not read again once DoTileJob has returned
    /\ osgb = << >> /\ reads = << >> /\ max_lvl = -1
    /\ calcOrder = << >> /\ b3dm_result = FailedResult
    /\ lod_pc = "ExtendTileBox"

SpecTree ==
    InitTree /\ [][\/ ToB3DM_ExtendTileBox
                   \/ ToB3DM_CalcGeometricError
                   \/ ToB3DM_EncodeTileJSON]_vars

\* ---------------------------------------------------------------------------
\* OSGB23dTiles::ToGLBBuf: buffer, buffer views, accessors and primitives of
\* one GLB.  The buffer is followed by its size only; vertex coordinates are
\* not followed.  Indices of accessors and buffer views count from 0 as in
\* the source, -1 standing for "none".
\* ---------------------------------------------------------------------------


AlignmentBuffer(size) == IF size % 4 = 0 THEN size ELSE size + (4 - (size % 4))

\* std::max
Max2(a, b) == IF a >= b THEN a ELSE b
RECURSIVE MaxIndex(_)
MaxIndex(indices) ==
    IF indices = << >> THEN 0 ELSE Max2(Head(indices), MaxIndex(Tail(indices)))

\* first is not a member of tinygltf::Accessor: it keeps the place in the
\* source array of the first element the accessor holds (vec_start)
Accessor(bufferView, type, componentType, count, maxValues) ==
    [bufferView |-> bufferView, type |-> type, componentType |-> componentType,
     count |-> count, maxValues |-> maxValues, first |-> 0]

\* what every writer does after its PutVal loop: pad the buffer, then append
\* the accessor and the buffer view that starts at buffer_start
EmplaceArray(st, bytes, acc, target) ==
    LET buffer_start == st.data_size
        data_size == AlignmentBuffer(buffer_start + bytes)
    IN  [st EXCEPT !.data_size = data_size,
                   !.accessors = Append(@, acc),
                   !.bufferViews = Append(@, [byteOffset |-> buffer_start,
                                                 byteLength |-> data_size - buffer_start,
                                                 target |-> target])]

\* the element type of the DrawElements class decides the bytes per index; the
\* component type of the accessor is the one the caller passes
WriteOsgIndecis(drawElements, st, componentType) ==
    LET IndNum == Len(drawElements.indices)
        sizeof_idx == CASE drawElements.type = "DrawElementsUByte" -> 1
                        [] drawElements.type = "DrawElementsUShort" -> 2
                        [] OTHER -> 4
    IN  EmplaceArray(st, IndNum * sizeof_idx,
                     Accessor(Len(st.bufferViews), "SCALAR", componentType,
                              IndNum, <<MaxIndex(drawElements.indices)>>),
                     "ELEMENT_ARRAY_BUFFER")

\* the number of array elements a writer copies: the whole array, or the
\* range of the current DrawArrays
VecCount(size, st) ==
    IF st.draw_array_first >= 0 THEN st.draw_array_count ELSE size
\* vec_start
VecStart(st) == IF st.draw_array_first >= 0 THEN st.draw_array_first ELSE 0

WriteVec3Array(size, st) ==
    EmplaceArray(st, VecCount(size, st) * 3 * 4,
                 [Accessor(Len(st.bufferViews), "VEC3", "FLOAT", VecCount(size, st), << >>)
                    EXCEPT !.first = VecStart(st)],
                 "ARRAY_BUFFER")

WriteVec2Array(size, st) ==
    EmplaceArray(st, VecCount(size, st) * 2 * 4,
                 [Accessor(Len(st.bufferViews), "VEC2", "FLOAT", VecCount(size, st), << >>)
                    EXCEPT !.first = VecStart(st)],
                 "ARRAY_BUFFER")

PickIndexComponentType(max_index) ==
    IF max_index <= 255 THEN "UNSIGNED_BYTE"
    ELSE IF max_index <= 65535 THEN "UNSIGNED_SHORT"
    ELSE "UNSIGNED_INT"

\* returns the index of the accessor (-1 for no indices) and the new state
WriteIndexVector(indices, st, dracoState) ==
    LET max_index == MaxIndex(indices)
        componentType == PickIndexComponentType(max_index)
        accIdx == Len(st.accessors)
    IN  IF indices = << >> THEN [ret |-> -1, st |-> st]
        ELSE IF dracoState.compressed
        THEN [ret |-> accIdx,
              st |-> [st EXCEPT !.accessors = Append(@, Accessor(-1, "SCALAR", componentType,
                                                      Len(indices), <<max_index>>))]]
        ELSE [ret |-> accIdx,
              st |-> EmplaceArray(st, Len(indices) * (CASE componentType = "UNSIGNED_BYTE" -> 1
                                                        [] componentType = "UNSIGNED_SHORT" -> 2
                                                        [] OTHER -> 4),
                                  Accessor(Len(st.bufferViews), "SCALAR", componentType,
                                           Len(indices), <<max_index>>),
                                  "ELEMENT_ARRAY_BUFFER")]

\* the triangle indices of a GL_QUADS or GL_QUAD_STRIP index sequence; the
\* empty sequence stands for the return value false
RECURSIVE QuadsFrom(_, _, _), StripFrom(_, _, _)
QuadsFrom(indices, q, quad_count) ==
    IF q >= quad_count THEN << >>
    ELSE LET base == q * 4
         IN  <<indices[base + 1], indices[base + 2], indices[base + 3],
               indices[base + 1], indices[base + 3], indices[base + 4]>>
             \o QuadsFrom(indices, q + 1, quad_count)
StripFrom(indices, i, pair_count) ==
    IF i + 1 >= pair_count \/ i * 2 + 3 >= Len(indices) THEN << >>
    ELSE LET base == i * 2
             a == indices[base + 1]
             b == indices[base + 2]
             c == indices[base + 3]
             d == indices[base + 4]
         IN  <<a, b, c, b, d, c>> \o StripFrom(indices, i + 1, pair_count)
TriangulateQuadLike(indices, mode) ==
    IF mode = "GL_QUADS"
    THEN IF Len(indices) < 4 THEN << >> ELSE QuadsFrom(indices, 0, Len(indices) \div 4)
    ELSE IF mode = "GL_QUAD_STRIP"
    THEN IF Len(indices) < 4 THEN << >> ELSE StripFrom(indices, 0, Len(indices) \div 2)
    ELSE << >>

\* the first switch of WriteElementArrayPrimitive: the index accessor of the
\* primitive set.  Returns primits.indices and the new state.
WritePrimitiveIndices(ps, st0, dracoState) ==
    LET st == [st0 EXCEPT !.draw_array_first = -1]
        needs_quad_triangulation == ps.mode \in {"GL_QUADS", "GL_QUAD_STRIP"}
        write_triangulated(componentType) ==
            IF ~needs_quad_triangulation
            THEN IF dracoState.compressed
                 THEN [ret |-> Len(st.accessors),
                       st |-> [st EXCEPT !.accessors = Append(@, Accessor(-1, "SCALAR", componentType,
                                                               Len(ps.indices), << >>))]]
                 ELSE [ret |-> Len(st.accessors), st |-> WriteOsgIndecis(ps, st, componentType)]
            ELSE IF TriangulateQuadLike(ps.indices, ps.mode) # << >>
                 THEN WriteIndexVector(TriangulateQuadLike(ps.indices, ps.mode), st, dracoState)
                 ELSE [ret |-> -1, st |-> st]
    IN  CASE ps.type = "DrawElementsUByte" -> write_triangulated("UNSIGNED_BYTE")
          [] ps.type = "DrawElementsUShort" -> write_triangulated("UNSIGNED_SHORT")
          [] ps.type = "DrawElementsUInt" -> write_triangulated("UNSIGNED_INT")
          [] ps.type = "DrawArrays" ->
                LET da == [st EXCEPT !.draw_array_first = ps.first, !.draw_array_count = ps.count]
                IN  IF needs_quad_triangulation /\ ps.count > 0
                       /\ TriangulateQuadLike([i \in 1..ps.count |-> i - 1], ps.mode) # << >>
                    THEN WriteIndexVector(TriangulateQuadLike([i \in 1..ps.count |-> i - 1], ps.mode), da, dracoState)
                    ELSE [ret |-> -1, st |-> da]
          [] OTHER -> [ret |-> -1, st |-> [st EXCEPT !.exited = TRUE]]

\* WriteAttribute remembering the accessor of a DrawArrays as well
WriteAttribute_RemembersDrawArrays(size, type, st, remembered, dracoState) ==
    IF remembered > -1 /\ st.draw_array_first = -1
    THEN [ret |-> remembered, st |-> st, remembered |-> remembered]
    ELSE [ret |-> Len(st.accessors),
          remembered |-> IF remembered = -1 THEN Len(st.accessors) ELSE remembered,
          st |-> IF dracoState.compressed
                 THEN [st EXCEPT !.accessors =
                         Append(@, [Accessor(-1, type, "FLOAT", VecCount(size, st), << >>)
                                      EXCEPT !.first = VecStart(st)])]
                 ELSE IF type = "VEC3" THEN WriteVec3Array(size, st)
                 ELSE WriteVec2Array(size, st)]

\* one vertex attribute of the primitive: the accessor remembered in pmtState
\* when there is one and the primitive set is no DrawArrays, else a new
\* accessor, written to the buffer unless the geometry is Draco-compressed.
\* Returns the accessor index, the new state and the new remembered accessor.
WriteAttribute(size, type, st, remembered, dracoState) ==
    IF remembered > -1 /\ st.draw_array_first = -1
    THEN [ret |-> remembered, st |-> st, remembered |-> remembered]
    ELSE [ret |-> Len(st.accessors),
          remembered |-> IF remembered = -1 /\ st.draw_array_first = -1
                         THEN Len(st.accessors) ELSE remembered,
          st |-> IF dracoState.compressed
                 THEN [st EXCEPT !.accessors =
                         Append(@, [Accessor(-1, type, "FLOAT", VecCount(size, st), << >>)
                                      EXCEPT !.first = VecStart(st)])]
                 ELSE IF type = "VEC3" THEN WriteVec3Array(size, st)
                 ELSE WriteVec2Array(size, st)]

\* the three attribute blocks of WriteElementArrayPrimitive; w holds the build
\* state, the pmtState and the primitive under construction
WritePosition(g, dracoState, w, r) ==
    [st |-> r.st, pmtState |-> [w.pmtState EXCEPT !.vertexAccessor = r.remembered],
     primits |-> [w.primits EXCEPT !.POSITION = r.ret]]
WriteNormal(g, dracoState, w, r) ==
    IF ~g.normals THEN w
    ELSE [st |-> r.st, pmtState |-> [w.pmtState EXCEPT !.normalAccessor = r.remembered],
          primits |-> [w.primits EXCEPT !.NORMAL = r.ret]]
WriteTexcoord(g, dracoState, w, r) ==
    IF ~g.texcoords THEN w
    ELSE [st |-> r.st, pmtState |-> [w.pmtState EXCEPT !.textcdAccessor = r.remembered],
          primits |-> [w.primits EXCEPT !.TEXCOORD_0 = r.ret]]

\* the second switch of WriteElementArrayPrimitive; "exit" stands for the
\* default branch
PrimitiveMode(mode) ==
    CASE mode = "GL_POINTS" -> "POINTS"
      [] mode = "GL_LINES" -> "LINE"
      [] mode = "GL_LINE_LOOP" -> "LINE_LOOP"
      [] mode = "GL_LINE_STRIP" -> "LINE_STRIP"
      [] mode = "GL_TRIANGLES" -> "TRIANGLES"
      [] mode = "GL_TRIANGLE_STRIP" -> "TRIANGLE_STRIP"
      [] mode = "GL_TRIANGLE_FAN" -> "TRIANGLE_FAN"
      [] mode = "GL_QUADS" -> "TRIANGLES"
      [] mode = "GL_QUAD_STRIP" -> "TRIANGLES"
      [] OTHER -> "exit"

\* the end of WriteElementArrayPrimitive: the mode, then the primitive joins
\* the mesh, with the Draco extension when the geometry is compressed
EmplacePrimitive(ps, dracoState, w) ==
    IF PrimitiveMode(ps.mode) = "exit"
    THEN [st |-> [w.st EXCEPT !.exited = TRUE], pmtState |-> w.pmtState]
    ELSE [st |-> [w.st EXCEPT !.primitives =
                    Append(@, [w.primits EXCEPT
                                 !.mode = PrimitiveMode(ps.mode),
                                 !.draco = IF dracoState.compressed THEN dracoState.bufferView
                                           ELSE -1])],
          pmtState |-> w.pmtState]

\* the attribute blocks in their order, each on the outcome of the one before
WriteAttributes(g, ps, dracoState, pmtState, ind) ==
    LET w0 == [st |-> ind.st, pmtState |-> pmtState,
               primits |-> [indices |-> ind.ret, POSITION |-> -1, NORMAL |-> -1,
                            TEXCOORD_0 |-> -1, material |-> -1, mode |-> "", draco |-> -1]]
        w1 == WritePosition(g, dracoState, w0,
                  WriteAttribute(g.vertices, "VEC3", w0.st,
                                 w0.pmtState.vertexAccessor, dracoState))
        AfterPosition(w) ==
            WriteNormal(g, dracoState, w,
                WriteAttribute(g.vertices, "VEC3", w.st,
                               w.pmtState.normalAccessor, dracoState))
        AfterNormal(w) ==
            WriteTexcoord(g, dracoState, w,
                WriteAttribute(g.vertices, "VEC2", w.st,
                               w.pmtState.textcdAccessor, dracoState))
    IN  EmplacePrimitive(ps, dracoState, AfterNormal(AfterPosition(w1)))

\* returns the new build state and the new pmtState
WriteElementArrayPrimitive(g, ps, st0, pmtState, dracoState) ==
    IF ps.type \notin {"DrawElementsUByte", "DrawElementsUShort", "DrawElementsUInt", "DrawArrays"}
    THEN [st |-> [st0 EXCEPT !.draw_array_first = -1, !.exited = TRUE], pmtState |-> pmtState]
    ELSE WriteAttributes(g, ps, dracoState, pmtState, WritePrimitiveIndices(ps, st0, dracoState))


\* the Draco block of WriteOsgGeometry: returns the new state and the dracoState
CompressGeometry(st, bEnableDraco, outcome) ==
    IF bEnableDraco /\ outcome.ok /\ outcome.compressed_size > 0
    THEN LET bufOffset == AlignmentBuffer(st.data_size)
         IN  [st |-> [st EXCEPT !.data_size = bufOffset + outcome.compressed_size,
                                !.bufferViews = Append(@, [byteOffset |-> bufOffset,
                                                              byteLength |-> outcome.compressed_size,
                                                              target |-> "none"])],
              dracoState |-> [compressed |-> TRUE, bufferView |-> Len(st.bufferViews)]]
    ELSE [st |-> st, dracoState |-> [compressed |-> FALSE, bufferView |-> -1]]

RECURSIVE WritePrimitiveSets(_, _, _, _)
WritePrimitiveSets(g, k, w, dracoState) ==
    IF k > Len(g.primitive_sets) \/ w.st.exited THEN w.st
    ELSE WritePrimitiveSets(g, k + 1,
            WriteElementArrayPrimitive(g, g.primitive_sets[k], w.st, w.pmtState, dracoState),
            dracoState)

\* the primitive sets are written on the outcome of the Draco block
WriteOsgGeometry(g, st, bEnableDraco, outcome) ==
    WritePrimitiveSets(g, 1,
        [st |-> CompressGeometry(st, bEnableDraco, outcome).st,
         pmtState |-> [vertexAccessor |-> -1, normalAccessor |-> -1, textcdAccessor |-> -1]],
        CompressGeometry(st, bEnableDraco, outcome).dracoState)

\* what MeshProcessor::ProcessTexture can give back: false for a texture
\* without image, else a KTX2 file when compression is enabled and succeeds,
\* a JPEG of the pixels, or the JPEG of a white 256 x 256 image when the pixel
\* format is none of RGBA, BGRA, RGB
ProcessTextureOutcomes(tex, enable_texture_compress) ==
    IF tex.NumImages = 0 THEN {[ok |-> FALSE, size |-> 0, mime_type |-> "", white |-> FALSE]}
    ELSE {[ok |-> TRUE, size |-> n, mime_type |-> "image/jpeg", white |-> w] :
            n \in {6, 8}, w \in BOOLEAN}
         \cup {[ok |-> TRUE, size |-> n, mime_type |-> "image/ktx2", white |-> FALSE] :
                 n \in IF enable_texture_compress THEN {6, 8} ELSE {}}

\* the material loop of ToGLBBuf for one geometry whose primitives start at
\* primitive_idx: the material of each becomes the place of the geometry's
\* texture in texture_array
SetMaterials(st, idx, g, texture_count) ==
    IF texture_count = 0 \/ g.texture = 0 THEN st
    ELSE [st EXCEPT !.primitives =
            [p \in 1..Len(@) |->
                IF p > idx /\ p <= idx + Len(g.primitive_sets)
                THEN [@[p] EXCEPT !.material = g.texture - 1]
                ELSE @[p]]]

\* ---- the primitive sets and geometries a file is made of ----
DrawElementsIndices(type) ==
    CASE type = "DrawElementsUByte" -> {<<0, 1, 2>>, <<0, 1, 2, 3>>, <<0, 1, 2, 255>>}
      [] type = "DrawElementsUShort" -> {<<0, 1, 2, 3>>, <<0, 1, 2, 256>>, <<0, 1, 2, 65535>>}
      [] OTHER -> {<<0, 1, 2, 3>>, <<0, 1, 2, 65535>>, <<0, 1, 2, 65536>>}
\* DrawArrayLengths stands for the primitive set types the writer does not know
PrimitiveSets ==
    LET modes == {"GL_POINTS", "GL_LINES", "GL_LINE_LOOP", "GL_LINE_STRIP", "GL_TRIANGLES",
                  "GL_TRIANGLE_STRIP", "GL_TRIANGLE_FAN", "GL_QUADS", "GL_QUAD_STRIP",
                  "GL_POLYGON"}
    IN  UNION {{[type |-> t, mode |-> m, indices |-> ix, first |-> 0, count |-> 0] :
                  m \in modes, ix \in DrawElementsIndices(t)} :
                t \in {"DrawElementsUByte", "DrawElementsUShort", "DrawElementsUInt"}}
        \cup {[type |-> t, mode |-> m, indices |-> << >>, first |-> 0, count |-> c] :
                t \in {"DrawArrays", "DrawArrayLengths"}, m \in modes, c \in {3, 4}}

\* the size of a vertex array that holds every vertex the primitive sets refer to
RECURSIVE VerticesFor(_)
VerticesFor(pss) ==
    IF pss = << >> THEN 0
    ELSE LET ps == Head(pss)
             needed == IF ps.indices = << >> THEN ps.first + ps.count
                       ELSE MaxIndex(ps.indices) + 1
         IN  Max2(needed, VerticesFor(Tail(pss)))
Geometry(pss, normals, texcoords, texture) ==
    [primitive_sets |-> pss, vertices |-> VerticesFor(pss), normals |-> normals,
     texcoords |-> texcoords, texture |-> texture]

\* InfoVisitor collects only geometries that have vertices and primitive sets,
\* and texture_array holds the textures of the collected geometries: the
\* files of one geometry with one primitive set of any kind or with several
\* primitive sets, and the files of up to MaxGeometries geometries of three
\* common kinds
GeometryArrays(texture_count) ==
    LET one == {Geometry(<<ps>>, n, t, x) :
                  ps \in PrimitiveSets, n \in BOOLEAN, t \in BOOLEAN, x \in 0..texture_count}
        common ==
            {Geometry(pss, TRUE, TRUE, x) :
                pss \in {<<[type |-> "DrawElementsUByte", mode |-> "GL_TRIANGLES",
                            indices |-> <<0, 1, 2>>, first |-> 0, count |-> 0]>>,
                         <<[type |-> "DrawElementsUShort", mode |-> "GL_TRIANGLES",
                            indices |-> <<0, 1, 2, 3>>, first |-> 0, count |-> 0],
                           [type |-> "DrawArrays", mode |-> "GL_QUADS",
                            indices |-> << >>, first |-> 0, count |-> 4]>>,
                         <<[type |-> "DrawElementsUInt", mode |-> "GL_TRIANGLE_STRIP",
                            indices |-> <<0, 1, 2, 3>>, first |-> 0, count |-> 0]>>},
                x \in 0..texture_count}
        \* geometries of two or three primitive sets, with and without draw range
        ranged ==
            {Geometry(pss, n, t, x) :
                pss \in SeqsUpTo({[type |-> "DrawElementsUByte", mode |-> "GL_TRIANGLES",
                                   indices |-> <<0, 1, 2>>, first |-> 0, count |-> 0],
                                  [type |-> "DrawArrays", mode |-> "GL_TRIANGLES",
                                   indices |-> << >>, first |-> 0, count |-> 3],
                                  [type |-> "DrawArrays", mode |-> "GL_TRIANGLES",
                                   indices |-> << >>, first |-> 1, count |-> 3]}, 3)
                         \ {<< >>},
                n \in BOOLEAN, t \in BOOLEAN, x \in 0..texture_count}
    IN  {ga \in {<<g>> : g \in one \cup ranged}
                \cup (SeqsUpTo(common, MaxGeometries) \ {<< >>}) :
            \A x \in 1..texture_count : \E k \in 1..Len(ga) : ga[k].texture = x}

\* ToGLBBuf after the file was read and its geometry_array found non-empty.
\* Every geometry of the array gives a primitive or ends the process, so the
\* return for a mesh without primitives is not taken.
InitGlb ==
    /\ GeoStart /\ ENABLE_PROJ = TRUE /\ B3dmIdle /\ BatchIdle /\ MetaIdle /\ LodIdle
    /\ ReadIdle
    /\ glb_args \in UNION {{[geometry_array |-> ga, texture_count |-> tc,
                              texture_array |-> ta, enable_draco |-> d,
                              enable_texture_compress |-> c] :
                                ga \in GeometryArrays(tc),
                                ta \in [1..tc -> {[NumImages |-> 0], [NumImages |-> 1]}],
                                d \in BOOLEAN, c \in BOOLEAN} :
                             tc \in 0..MaxTextures}
    /\ osgState = OsgBuildState
    /\ primitive_idx = 0 /\ g_idx = 1 /\ tex_idx = 1 /\ glb_ret = FALSE /\ glb_pc = "run"

\* the rest of a turn of the loop over geometry_array, st being what
\* WriteOsgGeometry left
GeometryWritten(g, st) ==
    /\ osgState' = IF st.exited THEN st
                   ELSE SetMaterials(st, primitive_idx, g, glb_args.texture_count)
    /\ primitive_idx' = IF glb_args.texture_count > 0 /\ ~st.exited
                        THEN primitive_idx + Len(g.primitive_sets)
                        ELSE primitive_idx
    /\ glb_pc' = IF st.exited THEN "exited" ELSE "run"

\* one turn of the loop over geometry_array
ToGLBBuf_Geometry ==
    /\ glb_pc = "run" /\ g_idx <= Len(glb_args.geometry_array)
    /\ IF glb_args.geometry_array[g_idx].vertices = 0
       THEN UNCHANGED <<osgState, glb_pc, primitive_idx>>
       ELSE \* CompressMeshGeometry fails, or gives a blob of some size
            \E outcome \in IF glb_args.enable_draco
                            THEN {[ok |-> FALSE, compressed_size |-> 0],
                                  [ok |-> TRUE, compressed_size |-> 0],
                                  [ok |-> TRUE, compressed_size |-> 5],
                                  [ok |-> TRUE, compressed_size |-> 8]}
                            ELSE {[ok |-> FALSE, compressed_size |-> 0]} :
              GeometryWritten(glb_args.geometry_array[g_idx],
                              WriteOsgGeometry(glb_args.geometry_array[g_idx], osgState,
                                               glb_args.enable_draco, outcome))
    /\ g_idx' = g_idx + 1
    /\ UNCHANGED <<glb_args, tex_idx, glb_ret>>
    /\ UNCHANGED <<geoVars, b3dmVars, batchVars, metaVars, lodVars, readVars>>

\* one turn of the loop over texture_array
ToGLBBuf_Image ==
    /\ glb_pc = "run" /\ g_idx > Len(glb_args.geometry_array)
    /\ osgState.primitives # << >>
    /\ tex_idx <= glb_args.texture_count
    /\ \E outcome \in ProcessTextureOutcomes(glb_args.texture_array[tex_idx],
                                               glb_args.enable_texture_compress) :
          LET buffer_start == osgState.data_size
              data_size == AlignmentBuffer(buffer_start + outcome.size)
          IN  osgState' =
                IF outcome.ok
                THEN [osgState EXCEPT
                        !.data_size = data_size,
                        \* tex and white are not members of tinygltf::Image: they
                        \* keep the texture the image was encoded from and whether
                        \* it is the white image
                        !.images = Append(@, [mimeType |-> outcome.mime_type,
                                              bufferView |-> Len(osgState.bufferViews),
                                              tex |-> tex_idx, white |-> outcome.white]),
                        !.bufferViews = Append(@, [byteOffset |-> buffer_start,
                                                      byteLength |-> data_size - buffer_start,
                                                      target |-> "none"])]
                ELSE osgState
    /\ tex_idx' = tex_idx + 1
    /\ UNCHANGED <<glb_args, primitive_idx, glb_pc, g_idx, glb_ret>>
    /\ UNCHANGED <<geoVars, b3dmVars, batchVars, metaVars, lodVars, readVars>>

\* materials and textures, one of each per element of texture_array, and the
\* serialisation, taken to succeed
ToGLBBuf_Finish ==
    /\ glb_pc = "run" /\ g_idx > Len(glb_args.geometry_array)
    /\ osgState.primitives # << >>
    /\ tex_idx > glb_args.texture_count
    /\ osgState' = [osgState EXCEPT
            !.materials = [i \in 1..glb_args.texture_count |-> [baseColorTexture |-> i - 1]],
            !.textures = [i \in 1..glb_args.texture_count |->
                            IF glb_args.enable_texture_compress
                            THEN [source |-> -1, basisu_source |-> i - 1]
                            ELSE [source |-> i - 1, basisu_source |-> -1]]]
    /\ glb_pc' = "returned" /\ glb_ret' = TRUE
    /\ UNCHANGED <<glb_args, primitive_idx, g_idx, tex_idx>>
    /\ UNCHANGED <<geoVars, b3dmVars, batchVars, metaVars, lodVars, readVars>>

SpecGlb == InitGlb /\ [][ToGLBBuf_Geometry \/ ToGLBBuf_Image \/ ToGLBBuf_Finish]_vars

\* ------------------------------------------------------------------------
\* GL_QUAD_STRIP in the mesh extractor (OsgbReader.cpp) and in the GLB writer
\* ------------------------------------------------------------------------
\* the GL_QUAD_STRIP branch of MeshExtractorVisitor::processDrawElements, from
\* place j of the loop on
RECURSIVE processDrawElements(_, _, _, _)
processDrawElements(elements, baseIndex, restartIndex, j) ==
    IF j + 3 >= Len(elements) THEN << >>
    ELSE LET i0 == elements[j + 1]
             i1 == elements[j + 2]
             i2 == elements[j + 4]
             i3 == elements[j + 3]
         IN  (IF restartIndex \in {i0, i1, i2, i3} THEN << >>
              ELSE <<baseIndex + i0, baseIndex + i1, baseIndex + i2,
                     baseIndex + i0, baseIndex + i2, baseIndex + i3>>)
             \o processDrawElements(elements, baseIndex, restartIndex, j + 2)

\* the GL_QUAD_STRIP branch of MeshExtractorVisitor::processDrawArrays
RECURSIVE processDrawArrays(_, _, _, _)
processDrawArrays(first, count, baseIndex, j) ==
    IF j + 3 >= count THEN << >>
    ELSE LET i0 == first + j
             i1 == first + j + 1
             i2 == first + j + 3
             i3 == first + j + 2
         IN  <<baseIndex + i0, baseIndex + i1, baseIndex + i2,
               baseIndex + i0, baseIndex + i2, baseIndex + i3>>
             \o processDrawArrays(first, count, baseIndex, j + 2)

\* a GL_QUAD_STRIP primitive set of the first geometry of a mesh (baseIndex 0):
\* unsigned byte elements, 255 being the restart index, or a draw range
InitStrip ==
    /\ GeoStart /\ ENABLE_PROJ = TRUE /\ B3dmIdle /\ BatchIdle /\ MetaIdle /\ LodIdle
    /\ GlbIdle /\ VisitIdle /\ LoadIdle
    /\ strip_ps \in {[type |-> "DrawElementsUByte", mode |-> "GL_QUAD_STRIP", indices |-> ix,
                       first |-> 0, count |-> 0] : ix \in SeqsUpTo({0, 1, 2, 3, 255}, MaxStripLen)}
                    \cup {[type |-> "DrawArrays", mode |-> "GL_QUAD_STRIP", indices |-> << >>,
                           first |-> f, count |-> c] : f \in {0, 1}, c \in 0..MaxStripLen}
    /\ meshIndices = << >> /\ triangulated_indices = << >> /\ strip_done = {}

\* MeshExtractorVisitor::apply(osg::Geode&) on the primitive set
MeshExtractor_apply ==
    /\ strip_ps.type # "none" /\ "extractor" \notin strip_done
    /\ meshIndices' =
          IF strip_ps.type = "DrawArrays"
          THEN processDrawArrays(strip_ps.first, strip_ps.count, 0, 0)
          ELSE processDrawElements(strip_ps.indices, 0, 255, 0)
    /\ strip_done' = strip_done \cup {"extractor"}
    /\ UNCHANGED <<geoVars, b3dmVars, batchVars, metaVars, lodVars, glbVars, visitVars,
                   loadVars, strip_ps, triangulated_indices>>

\* the first switch of WriteElementArrayPrimitive on the primitive set
Writer_Triangulate ==
    /\ strip_ps.type # "none" /\ "writer" \notin strip_done
    /\ triangulated_indices' =
          IF strip_ps.type = "DrawArrays"
          THEN TriangulateQuadLike([i \in 1..strip_ps.count |-> i - 1], strip_ps.mode)
          ELSE TriangulateQuadLike(strip_ps.indices, strip_ps.mode)
    /\ strip_done' = strip_done \cup {"writer"}
    /\ UNCHANGED <<geoVars, b3dmVars, batchVars, metaVars, lodVars, glbVars, visitVars,
                   loadVars, strip_ps, meshIndices>>

\* the two triangulations of one primitive set, in any order
SpecStrip == InitStrip /\ [][MeshExtractor_apply \/ Writer_Triangulate]_vars

\* ------------------------------------------------------------------------
\* InfoVisitor on the scene graph of a file
\* ------------------------------------------------------------------------
\* the scene graphs of at most the given depth: a drawable (with vertices and
\* primitive sets, or without), or a group or paged node over one or two
\* scene graphs
RECURSIVE SceneGraphs(_)
SceneGraphs(depth) ==
    LET drawables == {[kind |-> "Geometry", drawable |-> d, children |-> << >>] :
                         d \in BOOLEAN}
    IN  IF depth = 0 THEN drawables
        ELSE drawables \cup
             {[kind |-> k, drawable |-> FALSE, children |-> c] :
                 k \in {"Group", "PagedLOD"},
                 c \in SeqsUpTo(SceneGraphs(depth - 1), 2) \ {<< >>}}

\* InfoVisitor::apply and NodeVisitor::traverse: the visitor after node
\* (at place path of the scene graph) and its right siblings from the i-th
\* child on have been visited
RECURSIVE InfoVisitor_apply(_, _, _)
RECURSIVE InfoVisitor_traverse(_, _, _, _)
InfoVisitor_apply(node, path, v) ==
    IF node.kind = "Geometry"
    THEN IF ~node.drawable THEN v
         ELSE IF v.is_pagedlod
         THEN [v EXCEPT !.geometry_array = Append(@, path)]
         ELSE [v EXCEPT !.other_geometry_array = Append(@, path)]
    ELSE IF node.kind = "PagedLOD"
    THEN [InfoVisitor_traverse(node, path,
              [v EXCEPT !.is_pagedlod = IF v.is_loadAllType THEN @ ELSE TRUE], 1)
          EXCEPT !.is_pagedlod = IF v.is_loadAllType THEN @ ELSE FALSE]
    ELSE InfoVisitor_traverse(node, path, v, 1)

InfoVisitor_traverse(node, path, v, i) ==
    IF i > Len(node.children) THEN v
    ELSE InfoVisitor_traverse(node, path,
             InfoVisitor_apply(node.children[i], Append(path, i), v), i + 1)

InitVisit ==
    /\ GeoStart /\ ENABLE_PROJ = TRUE /\ B3dmIdle /\ BatchIdle /\ MetaIdle /\ LodIdle
    /\ GlbIdle /\ StripIdle /\ LoadIdle
    /\ scene_graph \in SceneGraphs(MaxSceneDepth)
    /\ visitor \in {InfoVisitor(loadAllType) : loadAllType \in BOOLEAN}
    /\ visit_pc = "accept"

\* root->accept(infoVisitor)
Node_accept ==
    /\ visit_pc = "accept"
    /\ visitor' = InfoVisitor_apply(scene_graph, << >>, visitor)
    /\ visit_pc' = "visited"
    /\ UNCHANGED <<geoVars, b3dmVars, batchVars, metaVars, lodVars, glbVars, stripVars,
                   loadVars, scene_graph>>

SpecVisit == InitVisit /\ [][Node_accept]_vars

\* ------------------------------------------------------------------------
\* OsgbReader::LoadAndConvertToMesh: the recursive loading of the child files
\* ------------------------------------------------------------------------
\* A file is named by its full path, baseDir / name; the paths are numbered
\* in the order of std::set<std::string>, 1 being filePath.  Of a file the
\* model keeps whether osgDB::readNodeFile loads it and the existing files
\* its PagedLOD and ProxyNode nodes name (PagedLODVisitor::childFiles).

\* the body of the loop "for (const auto &childFile : currentLevelFiles)";
\* st holds processedFiles, nextLevelFiles and the files merged
ProcessChild_MergesAgain(fs, childFile, st) ==
    IF ~fs[childFile].loads
    THEN [st EXCEPT !.processedFiles = @ \cup {childFile}]
    ELSE [processedFiles |-> st.processedFiles \cup {childFile},
          nextLevelFiles |-> st.nextLevelFiles \cup
                                (fs[childFile].childFiles
                                    \ (st.processedFiles \cup {childFile})),
          merged |-> Append(st.merged, childFile)]

ProcessChild(fs, childFile, st) ==
    IF childFile \in st.processedFiles THEN st
    ELSE IF ~fs[childFile].loads
    THEN [st EXCEPT !.processedFiles = @ \cup {childFile}]
    ELSE [processedFiles |-> st.processedFiles \cup {childFile},
          nextLevelFiles |-> st.nextLevelFiles \cup
                                (fs[childFile].childFiles
                                    \ (st.processedFiles \cup {childFile})),
          merged |-> Append(st.merged, childFile)]

\* the loop over one level, in the order of the set
RECURSIVE ProcessLevel(_, _, _)
ProcessLevel(fs, todo, st) ==
    IF todo = << >> THEN st
    ELSE ProcessLevel(fs, Tail(todo), ProcessChild(fs, Head(todo), st))

InitLoad ==
    /\ GeoStart /\ ENABLE_PROJ = TRUE /\ B3dmIdle /\ BatchIdle /\ MetaIdle /\ LodIdle
    /\ GlbIdle /\ StripIdle /\ VisitIdle
    \* every file names at most two files; at most one file fails to load
    /\ \E refs \in [1..MaxLoadFiles -> {c \in SUBSET (1..MaxLoadFiles) : Cardinality(c) <= 2}],
          unreadable \in 0..MaxLoadFiles, loadAllLevels \in BOOLEAN, maxDepth \in 0..1 :
          load_args = [files |-> [f \in 1..MaxLoadFiles |->
                                     [loads |-> f # unreadable, childFiles |-> refs[f]]],
                       loadAllLevels |-> loadAllLevels, maxDepth |-> maxDepth]
    /\ load_pc = "call"
    /\ processedFiles = {} /\ currentLevelFiles = {} /\ currentDepth = 0
    /\ merged = << >>

\* steps 1 to 7 up to the while loop
LoadAndConvertToMesh_Root ==
    /\ load_pc = "call"
    /\ IF load_args.files[1].loads /\ load_args.loadAllLevels
       THEN /\ processedFiles' = {1}
            /\ currentDepth' = 1
            /\ currentLevelFiles' = load_args.files[1].childFiles
            /\ load_pc' = "while"
       ELSE /\ load_pc' = "returned"
            /\ UNCHANGED <<processedFiles, currentDepth, currentLevelFiles>>
    /\ UNCHANGED <<geoVars, b3dmVars, batchVars, metaVars, lodVars, glbVars, stripVars,
                   visitVars, load_args, merged>>

\* one turn of "while (!currentLevelFiles.empty() && (maxDepth == 0 ||
\* currentDepth <= maxDepth))"
LoadAndConvertToMesh_Level ==
    /\ load_pc = "while"
    /\ currentLevelFiles # {}
    /\ load_args.maxDepth = 0 \/ currentDepth <= load_args.maxDepth
    /\ LET st == ProcessLevel(load_args.files, Ascending(currentLevelFiles),
                              [processedFiles |-> processedFiles, nextLevelFiles |-> {},
                               merged |-> merged])
       IN  /\ processedFiles' = st.processedFiles
           /\ currentLevelFiles' = st.nextLevelFiles
           /\ merged' = st.merged
    /\ currentDepth' = currentDepth + 1
    /\ UNCHANGED <<geoVars, b3dmVars, batchVars, metaVars, lodVars, glbVars, stripVars,
                   visitVars, load_args, load_pc>>

\* the loop ends
LoadAndConvertToMesh_Return ==
    /\ load_pc = "while"
    /\ ~(/\ currentLevelFiles # {}
         /\ load_args.maxDepth = 0 \/ currentDepth <= load_args.maxDepth)
    /\ load_pc' = "returned"
    /\ UNCHANGED <<geoVars, b3dmVars, batchVars, metaVars, lodVars, glbVars, stripVars,
                   visitVars, load_args, processedFiles, currentLevelFiles, currentDepth,
                   merged>>

NextLoad ==
    \/ LoadAndConvertToMesh_Root
    \/ LoadAndConvertToMesh_Level
    \/ LoadAndConvertToMesh_Return

\* one LoadAndConvertToMesh call; the call runs on while it has a step to take
SpecLoad == InitLoad /\ [][NextLoad]_vars /\ WF_vars(NextLoad)

\* ------------------------------------------------------------------------
\* Properties of the GeoTransform API
\* ------------------------------------------------------------------------
LastCall == callLog[Len(callLog)]

C7_InitializedIffLastInitOk ==
    IsInitialized(geo) <=>
        (callLog # << >> /\ LastCall.op \in {"InitFromEPSG", "InitFromENU", "InitFromWKT"} /\ LastCall.ok)

C7_IdleCleanupChangesNothing ==
    [][(callLog' # callLog /\ callLog'[Len(callLog')].op = "Cleanup"
            /\ ~IsInitialized(geo)) => geo' = geo]_vars

\* C7: for every sequence of init-from-epsg / init-from-enu / init-from-wkt /
\* cleanup calls, is-initialized() is true exactly when the most recent call
\* was an init-* that returned ok (so it is false after any cleanup), and a
\* cleanup made while nothing is initialized (a repeated cleanup included)
\* changes no GeoTransform state.
C7_IsInitializedTracksLastCall ==
    []C7_InitializedIffLastInitOk /\ C7_IdleCleanupChangesNothing

\* an init-* that succeeded, followed by a cleanup and a repeated cleanup
C7_Witness ==
    /\ Len(callLog) >= 3
    /\ callLog[1].op \in {"InitFromEPSG", "InitFromENU", "InitFromWKT"} /\ callLog[1].ok
    /\ callLog[2].op = "Cleanup" /\ callLog[3].op = "Cleanup"
    /\ ~IsInitialized(geo)

\* indexes of the init-* calls made so far
InitCalls == {i \in 1..Len(callLog) : callLog[i].op \in {"InitFromEPSG", "InitFromENU", "InitFromWKT"}}
LastInit == callLog[CHOOSE i \in InitCalls : \A j \in InitCalls : j <= i]

\* C8: GetLastError returns NULL when there is no error, that is before any
\* init-* call has failed and again once a later init-* call has succeeded;
\* after a failed init-* call it returns that call's error message.
C8_LastErrorIsNullUnlessLastInitFailed ==
    /\ ((\A i \in InitCalls : callLog[i].ok) => GetLastError(geo) = NULL)
    /\ (InitCalls # {} /\ LastInit.ok => GetLastError(geo) = NULL)
    /\ (InitCalls # {} /\ ~LastInit.ok => GetLastError(geo) = LastInit.err)

\* ------------------------------------------------------------------------
\* Properties of the B3DM frame
\* ------------------------------------------------------------------------
\* the little-endian u32 at 1-based position pos of buf
U32At(buf, pos) ==
    buf[pos] + 256 * buf[pos + 1] + 65536 * buf[pos + 2] + 16777216 * buf[pos + 3]

Produced == b3dm_pc = "done" /\ b3dm_ret
FtJsonLen == U32At(b3dm_buf, 13)
FtBinLen == U32At(b3dm_buf, 17)
BtJsonLen == U32At(b3dm_buf, 21)
BtBinLen == U32At(b3dm_buf, 25)

\* C9: every B3DM buffer ToB3DMBuf produces starts with "b3dm", has version 1,
\* and its totalByteLength field equals 28 + the four table lengths + the GLB
\* length, which is the actual length of the buffer (the GLB being its tail).
C9_B3dmHeaderMatchesBuffer ==
    Produced =>
        /\ Len(b3dm_buf) >= 28
        /\ SubSeq(b3dm_buf, 1, 4) = <<98, 51, 100, 109>>
        /\ U32At(b3dm_buf, 5) = 1
        /\ U32At(b3dm_buf, 9) =
               28 + FtJsonLen + FtBinLen + BtJsonLen + BtBinLen + Len(glb_buf)
        /\ U32At(b3dm_buf, 9) = Len(b3dm_buf)
        /\ SubSeq(b3dm_buf, Len(b3dm_buf) - Len(glb_buf) + 1, Len(b3dm_buf)) = glb_buf

\* a frame around a GLB of the largest size
C9_Witness == Produced /\ Len(glb_buf) = MaxGlbLen /\ Len(b3dm_buf) > 28 + MaxGlbLen

\* C10: in every B3DM buffer ToB3DMBuf produces, 28 + feature-table JSON
\* length is a multiple of 8 and the batch-table JSON length is a multiple of 8.
C10_TablesAligned ==
    Produced => (28 + FtJsonLen) % 8 = 0 /\ BtJsonLen % 8 = 0

\* both tables needed padding: they are longer than their unpadded JSON
C10_Witness ==
    /\ Produced
    /\ FtJsonLen > Len(FeatureJson(mesh_count))
    /\ BtJsonLen > Len(BatchJsonDump(mesh_count))

\* ------------------------------------------------------------------------
\* Properties of ToB3DMBatch
\* ------------------------------------------------------------------------
Min2(a, b) == IF a <= b THEN a ELSE b

\* the message (a sequence of inserted pieces) holds the given piece
Contains(str, piece) == \E i \in 1..Len(str) : str[i] = piece

Returned == bpc = "returned"
Succeeded == {i \in Tasks : Converted(tres[i])}
Joined == \A i \in Tasks : tpc[i] \in {"done", "failed"}
ChildUri(i) == IF is_oblique_data
               THEN "./Data/" \o tiles[i].tile_name \o "/tileset.json"
               ELSE "./" \o tiles[i].tile_name \o "/tileset.json"
ChildUris == {rootNode.children[k].contentUri : k \in 1..Len(rootNode.children)}

\* C1: after a batch in which at least one root tile succeeded, the
\* dataset-root tileset.json has exactly one child entry per root tile whose
\* ToB3DM call succeeded and no child entry for a root tile that failed.
C1_RootListsOnlySucceededTiles ==
    (Returned /\ Succeeded # {}) =>
        /\ (out_path \o "/tileset.json") \in DOMAIN files
        /\ files[(out_path \o "/tileset.json")].root = rootNode
        /\ Len(rootNode.children) = Cardinality(Succeeded)
        /\ ChildUris = {ChildUri(i) : i \in Succeeded}

C3_CleanupOnEveryReturn ==
    (Returned /\ initTried.ok) => ~IsInitialized(geo)

\* C4: if InitFromEPSG fails because the CRS is not in the database,
\* ToB3DMBatch returns failure, last-error contains "Failed to create
\* transformation", and no tileset.json (per tile or dataset root) is written.
C4_MissingCrsFailsTheBatch ==
    (Returned /\ initTried.srs = "EPSG" /\ initTried.noCrs) =>
        /\ retval = FALSE
        /\ Contains(geo.lastError, "Failed to create transformation")
        /\ DOMAIN files = {}

\* C26: a ToB3DMBatch call on a dataset without a parseable metadata.xml
\* applies no geodetic correction to any vertex, whatever ToB3DMBatch calls
\* the process made before.
C26_NoCorrectionWithoutMetadata ==
    (bpc \in {"parallel", "returned"} /\ ~has_metadata) =>
        \A i \in Tasks : ~corrected[i]

InCritical(i) == tpc[i] \in {"emplace", "check", "merge"}

\* the component-wise union of the result boxes of a set of tiles
RECURSIVE UnionOfResults(_)
UnionOfResults(T) ==
    IF T = {} THEN EmptyBox
    ELSE LET i == CHOOSE x \in T : TRUE
             rest == UnionOfResults(T \ {i})
             b == BoxOfResult(tres[i])
         IN  IF rest = EmptyBox THEN b
             ELSE [max |-> [k \in 1..3 |-> Max2(rest.max[k], b.max[k])],
                   min |-> [k \in 1..3 |-> Min2(rest.min[k], b.min[k])]]

\* C5: under every interleaving of the parallel root-tile tasks, the updates
\* of the merged box and of the result list are mutually exclusive, and once
\* all tasks have joined the merged box is the component-wise union of the
\* result boxes of exactly the successful tiles and the list has exactly one
\* entry per successful tile, whatever the completion order.
C5_CriticalSectionAndMergedBox ==
    /\ \A i, j \in Tasks : (i # j) => ~(InCritical(i) /\ InCritical(j))
    /\ (bpc = "parallel" /\ Joined) =>
          /\ global_bbox = UnionOfResults(Succeeded)
          /\ Len(tile_jsons) = Cardinality(Succeeded)
          /\ \A i \in Succeeded :
                Cardinality({k \in 1..Len(tile_jsons) :
                                 tile_jsons[k] = tres[i].tilesetJson}) = 1

\* two tiles with different boxes converted, the higher-numbered one first
C5_Witness ==
    /\ bpc = "parallel" /\ Joined
    /\ \E i, j \in Succeeded :
          /\ i < j
          /\ tres[i].boundingBox # tres[j].boundingBox
          /\ tile_jsons[1] = tres[j].tilesetJson

\* C6: for metadata with an EPSG SRS whose GeoTransform initialization
\* succeeds, the dataset center used for the dataset-root transform equals
\* the (longitude, latitude) obtained by forward-transforming SRSOrigin,
\* i.e. the geographic origin stored by GeoTransform::Init.
C6_CenterIsTransformedOrigin ==
    (Returned /\ retval /\ initTried.srs = "EPSG" /\ initTried.ok) =>
        /\ rootNode.transform.lon = geo.GeoOriginLon
        /\ rootNode.transform.lat = geo.GeoOriginLat

\* ------------------------------------------------------------------------
\* Properties of ParseMetadataXml
\* ------------------------------------------------------------------------
Parsed == mpc = "done" /\ parse_ret = TRUE
HasColon(str) == FirstPos(str, {":"}) # 0
\* the trimmed text before the first ':' of str
BeforeColon(str) == trim(SubSeq(str, 1, FirstPos(str, {":"}) - 1))
SrsKinds(m) == {k \in {"ENU", "EPSG", "WKT"} :
                  \/ k = "ENU" /\ m.bIsENU
                  \/ k = "EPSG" /\ m.bIsEPSG
                  \/ k = "WKT" /\ m.bIsWKT}
\* the kind the SRS text announces
AnnouncedKind(str) ==
    IF HasColon(str) /\ BeforeColon(str) = <<"E", "N", "U">> THEN "ENU"
    ELSE IF HasColon(str) /\ BeforeColon(str) = <<"E", "P", "S", "G">> THEN "EPSG"
    ELSE "WKT"

\* C18: whenever ParseMetadataXml returns success, exactly one of the SRS
\* kinds ENU / EPSG / WKT is set: ENU iff the trimmed text before the first
\* ':' of the SRS is exactly "ENU", EPSG iff it is exactly "EPSG", and WKT in
\* every other case, including an SRS without ':'.
C18_ExactlyTheAnnouncedSrsKind ==
    Parsed => SrsKinds(outMetadata) = {AnnouncedKind(outMetadata.strSrs)}

\* ------------------------------------------------------------------------
\* Properties of the LOD tree of ToB3DM
\* ------------------------------------------------------------------------
Descendants(tree) == UNION {Nodes(tree.sub_nodes[i]) : i \in 1..Len(tree.sub_nodes)}
NonEmptyBox(box) == box.max # << >> /\ box.min # << >>
BoxWithin(inner, outer) ==
    \A k \in 1..3 : outer.min[k] <= inner.min[k] /\ inner.max[k] <= outer.max[k]
TreeRead == lod_pc # "GetAllTree" /\ lod_pc # "idle"
Extended == lod_pc \in {"CalcGeometricError", "EncodeTileJSON", "returned"}
Calculated == lod_pc = "EncodeTileJSON"

\* C12: after ExtendTileBox, whatever nodes got a box from their own B3DM,
\* the box of every node contains the box of every descendant that has one.
C12_BoxContainsDescendants ==
    Extended =>
        \A n \in Nodes(root) : \A d \in Descendants(n) :
            NonEmptyBox(d.bbox) => NonEmptyBox(n.bbox) /\ BoxWithin(d.bbox, n.bbox)

\* a node whose own B3DM box did not contain the box of a descendant
C12_Witness ==
    /\ lod_pc = "CalcGeometricError"
    /\ \E n \in Nodes(root) : \E d \in Descendants(n) :
          /\ B3dmName(n.file_name, n.type) \in b3dm_files
          /\ NonEmptyBox(d.bbox)
          /\ ~BoxWithin(d.bbox, MeshBox(n.file_name, n.type))

NonZeroChildren(n) ==
    {i \in 1..Len(n.sub_nodes) : n.sub_nodes[i].geometricError # 0}
MaxExtent(box) ==
    Max2(Max2(box.max[1] - box.min[1], box.max[2] - box.min[2]), box.max[3] - box.min[3])
PlaceIn(order, key) == CHOOSE i \in 1..Len(order) : order[i] = key
ChildrenFirst ==
    \A n \in Nodes(root) : \A i \in 1..Len(n.sub_nodes) :
        /\ \E k \in 1..Len(calcOrder) : calcOrder[k] = NodeKey(n.sub_nodes[i])
        /\ \E k \in 1..Len(calcOrder) : calcOrder[k] = NodeKey(n)
        /\ PlaceIn(calcOrder, NodeKey(n.sub_nodes[i])) < PlaceIn(calcOrder, NodeKey(n))
LeafAndDoublingRules(n) ==
    /\ n.sub_nodes = << >> => n.geometricError = 0
    /\ NonZeroChildren(n) # {} =>
          \E i \in NonZeroChildren(n) : n.geometricError = 2 * n.sub_nodes[i].geometricError
BoxRuleApplies(n) == n.sub_nodes # << >> /\ NonZeroChildren(n) = {}

\* C13 as stated: after CalcGeometricError every leaf has error 0, every node
\* with a child of non-zero error has twice the error of one such child, and
\* every other non-leaf node has error max(dx, dy, dz) / 20 of its union box;
\* each child's error is computed before its parent's.
C13_ErrorRulesAsStated ==
    Calculated =>
        /\ \A n \in Nodes(root) :
              /\ LeafAndDoublingRules(n)
              /\ BoxRuleApplies(n) =>
                    /\ NonEmptyBox(n.bbox)
                    /\ n.geometricError * 20 = MaxExtent(n.bbox)
        /\ ChildrenFirst

\* C13 amended: as stated, except that a non-leaf node without a child of
\* non-zero error has error max(dx, dy, dz) / 20 of its union box when that
\* box is not empty, and error 0 when no node of its subtree has a box.
C13_ErrorRulesWithEmptyBox ==
    Calculated =>
        /\ \A n \in Nodes(root) :
              /\ LeafAndDoublingRules(n)
              /\ BoxRuleApplies(n) =>
                    IF NonEmptyBox(n.bbox)
                    THEN n.geometricError * 20 = MaxExtent(n.bbox)
                    ELSE n.geometricError = 0
        /\ ChildrenFirst

\* a tree with a leaf, a node that takes a non-zero error from its box and a
\* node that doubles the error of a child
C13_Witness ==
    /\ Calculated
    /\ \E n \in Nodes(root) : n.sub_nodes = << >>
    /\ \E n \in Nodes(root) : NonZeroChildren(n) # {}
    /\ \E n \in Nodes(root) :
          /\ BoxRuleApplies(n) /\ NonEmptyBox(n.bbox) /\ n.geometricError > 0

ToB3DMSucceeded == lod_pc = "returned" /\ b3dm_result.success
\* places of the tileset JSON where a children array with a child opens
OpenChildArrays(json) ==
    {i \in 1..(Len(json) - 1) : json[i] = ",\"children\":[" /\ json[i + 1] = "{"}
RefineMembers(json) == {i \in 1..Len(json) : json[i] = "\"refine\":\"REPLACE\""}

\* C14: every node of the per-tile tileset JSON that has at least one child
\* carries "refine":"REPLACE".
C14_ParentsCarryRefine ==
    ToB3DMSucceeded =>
        Cardinality(RefineMembers(b3dm_result.tilesetJson))
            >= Cardinality(OpenChildArrays(b3dm_result.tilesetJson))

BothBuckets(f) == osgb[f].geometry_array # << >> /\ osgb[f].other_geometry_array # << >>
\* the nodes the child files named by a file contribute, in reference order
RECURSIVE ExpectedKeys(_)
ExpectedKeys(names) ==
    IF names = << >> THEN << >>
    ELSE (IF ~osgb[Head(names)].loads THEN << >>
          ELSE IF BothBuckets(Head(names))
               THEN << <<Head(names), 1>>, <<Head(names), 2>> >>
               ELSE << <<Head(names), 1>> >>)
         \o ExpectedKeys(Tail(names))
KeysOf(sub_nodes) == [i \in 1..Len(sub_nodes) |-> NodeKey(sub_nodes[i])]
\* the files on the reference path from the root file to f, f included
RECURSIVE PathTo(_)
PathTo(f) ==
    IF f = 1 THEN {1}
    ELSE {f} \cup PathTo(CHOOSE g \in 1..MaxFiles :
                            \E i \in 1..Len(osgb[g].sub_node_names) :
                                osgb[g].sub_node_names[i] = f)
Reachable(f) == \A g \in PathTo(f) \ {f} : osgb[g].loads

\* C19: when a child file of a paged node fails to load, GetAllTree leaves
\* out that child and its whole subtree, still reads and appends every
\* remaining sibling in reference order, and reads no file twice.
C19_FailedChildOnlyIsOmitted ==
    TreeRead =>
        /\ \A n \in Nodes(root) :
              n.type = 1 => KeysOf(n.sub_nodes) = ExpectedKeys(osgb[n.file_name].sub_node_names)
        /\ \A i, j \in 1..Len(reads) : reads[i] = reads[j] => i = j
        /\ \A f \in 1..MaxFiles : (\E i \in 1..Len(reads) : reads[i] = f) <=> Reachable(f)
        /\ \A n \in Nodes(root) :
              n.file_name # NoFileName => \A g \in PathTo(n.file_name) : osgb[g].loads

\* a paged node in the tree with a child that failed to load named before one
\* that loaded
C19_Witness ==
    /\ lod_pc = "DoTileJob"
    /\ \E n \in Nodes(root) :
          /\ n.type = 1
          /\ \E i, j \in 1..Len(osgb[n.file_name].sub_node_names) :
                /\ i < j
                /\ ~osgb[osgb[n.file_name].sub_node_names[i]].loads
                /\ osgb[osgb[n.file_name].sub_node_names[j]].loads
                /\ \E k \in 1..Len(n.sub_nodes) :
                      n.sub_nodes[k].file_name = osgb[n.file_name].sub_node_names[j]

\* C20: GetAllTree on a file with both pagedlod drawables and other drawables
\* returns a root node (type 0) with exactly two children, the paged node
\* (type 1) carrying all the child subtrees read, then a leaf-other node
\* (type 2) with the same path and no children; with drawables in one bucket
\* only it returns a single paged node (type 1).
C20_SplitOfMixedFile ==
    (TreeRead /\ osgb[1].loads) =>
        IF BothBuckets(1)
        THEN /\ root.type = 0 /\ root.file_name = 1
             /\ Len(root.sub_nodes) = 2
             /\ root.sub_nodes[1].type = 1
             /\ root.sub_nodes[1].file_name = 1
             /\ KeysOf(root.sub_nodes[1].sub_nodes) = ExpectedKeys(osgb[1].sub_node_names)
             /\ root.sub_nodes[2].type = 2
             /\ root.sub_nodes[2].file_name = 1
             /\ root.sub_nodes[2].sub_nodes = << >>
        ELSE (osgb[1].geometry_array # << >> \/ osgb[1].other_geometry_array # << >>) =>
                /\ root.type = 1 /\ root.file_name = 1
                /\ KeysOf(root.sub_nodes) = ExpectedKeys(osgb[1].sub_node_names)

\* a mixed root file whose paged node carries a child subtree
C20_Witness ==
    /\ lod_pc = "DoTileJob"
    /\ BothBuckets(1)
    /\ root.sub_nodes # << >>
    /\ root.sub_nodes[1].sub_nodes # << >>

\* C21: in every tree GetAllTree returns, whatever the depth of nesting of
\* files that split into paged and other drawables, a node of kind root
\* (type 0) is the top node only: the children of a child of kind root stand
\* in its place in the parent, in order.
C21_RootKindOnlyAtTop ==
    TreeRead =>
        /\ \A n \in Descendants(root) : n.type \in {1, 2}
        /\ \A n \in Nodes(root) : \A i \in 1..Len(n.sub_nodes) :
              (n.sub_nodes[i].type = 1 /\ BothBuckets(n.sub_nodes[i].file_name)) =>
                  /\ i < Len(n.sub_nodes)
                  /\ NodeKey(n.sub_nodes[i + 1]) = <<n.sub_nodes[i].file_name, 2>>

\* a file that splits, read as the child of a file that splits and is itself
\* the child of a file
C21_Witness ==
    /\ lod_pc = "DoTileJob"
    /\ \E n \in Descendants(root) :
          /\ n.type = 1 /\ BothBuckets(n.file_name)
          /\ \E i \in 1..Len(n.sub_nodes) :
                n.sub_nodes[i].type = 1 /\ BothBuckets(n.sub_nodes[i].file_name)

\* C28: after CalcGeometricError on any LOD tree the geometric error of every
\* non-leaf node is greater than or equal to that of each of its children.
C28_ErrorNotBelowChildren ==
    Calculated =>
        \A n \in Nodes(root) : \A i \in 1..Len(n.sub_nodes) :
            n.geometricError >= n.sub_nodes[i].geometricError

\* the content.uri members of a tileset JSON
ContentUris(json) ==
    {json[i + 1] : i \in {k \in 1..(Len(json) - 1) : json[k] = ",\"content\":{\"uri\":\""}}

\* C25: after ToB3DM every content.uri of the returned tileset JSON names a
\* B3DM file that DoTileJob wrote in the output directory, whatever the LOD
\* tree and whatever nodes failed to give a B3DM.
C25_ContentUrisNameWrittenFiles ==
    ToB3DMSucceeded =>
        \A uri \in ContentUris(b3dm_result.tilesetJson) :
            \E name \in b3dm_files : uri = "./" \o name

\* the nodes DoTileJob leaves out: those whose level is above max_lvl, and
\* everything below them
AboveMaxLevel(n) == n.file_name # NoFileName /\ osgb[n.file_name].lvl > max_lvl
LeftOut == UNION {Nodes(n) : n \in {x \in Nodes(root) : AboveMaxLevel(x)}}

\* C29: with max_level # -1 ToB3DM writes no B3DM for a node whose file-name
\* level is above max_level nor for a descendant of such a node, and none of
\* these nodes is in the returned tileset JSON.
C29_NothingAboveMaxLevel ==
    (lod_pc \in {"ExtendTileBox", "CalcGeometricError", "EncodeTileJSON", "returned"}
     /\ max_lvl # -1) =>
        \A n \in LeftOut :
            /\ B3dmName(n.file_name, n.type) \notin b3dm_files
            /\ ("./" \o B3dmName(n.file_name, n.type))
                   \notin ContentUris(b3dm_result.tilesetJson)

\* a returned tileset of a tree in which a node above max_level and a node
\* below it both had a GLB to give
C29_Witness ==
    /\ ToB3DMSucceeded /\ max_lvl # -1
    /\ ContentUris(b3dm_result.tilesetJson) # {}
    /\ \E n \in Nodes(root) : \E d \in Descendants(n) :
          /\ AboveMaxLevel(n)
          /\ ToGLBBufOk(osgb, n.file_name, n.type)
          /\ ToGLBBufOk(osgb, d.file_name, d.type)

\* ------------------------------------------------------------------------
\* Properties of the GLB writer
\* ------------------------------------------------------------------------
GlbBuilt == glb_pc = "returned" /\ glb_ret
BufferViews == {osgState.bufferViews[i] : i \in 1..Len(osgState.bufferViews)}
\* the accessors that hold indices and record their largest index
IndexAccessors ==
    {a \in {osgState.accessors[i] : i \in 1..Len(osgState.accessors)} :
        a.type = "SCALAR" /\ a.maxValues # << >>}
\* the component type the rule "by the maximum index value" gives
TypeByMaxIndex(max_index) ==
    IF max_index <= 255 THEN "UNSIGNED_BYTE"
    ELSE IF max_index <= 65535 THEN "UNSIGNED_SHORT"
    ELSE "UNSIGNED_INT"

\* C11: in every GLB built by ToGLBBuf, whatever the geometries, the textures,
\* the two compression flags and the outcome of Draco per geometry, every
\* buffer view has 0 <= byteOffset, byteOffset + byteLength <= buffer length
\* and a byteOffset that is a multiple of 4.
C11_BufferViewsInBoundsAndAligned ==
    GlbBuilt =>
        \A bv \in BufferViews :
            /\ 0 <= bv.byteOffset
            /\ bv.byteOffset + bv.byteLength <= osgState.data_size
            /\ bv.byteOffset % 4 = 0

\* C15: every index accessor the GLB writer writes has the component type
\* given by its maximum index value (UBYTE up to 255, USHORT up to 65535,
\* else UINT), for triangulated quad indices and for indices copied from a
\* DrawElements primitive set alike.
C15_IndexTypeByMaxIndex ==
    \A a \in IndexAccessors : a.componentType = TypeByMaxIndex(a.maxValues[1])

\* C16: an index buffer whose maximum index value equals 65535 is stored with
\* component type UINT, not USHORT.
C16_MaxIndex65535IsUInt ==
    \A a \in IndexAccessors :
        a.maxValues[1] = 65535 => a.componentType = "UNSIGNED_INT"

\* the geometries the loop of ToGLBBuf has handed to WriteOsgGeometry
Written ==
    {k \in 1..Len(glb_args.geometry_array) :
        k < g_idx /\ glb_args.geometry_array[k].vertices > 0}
HasPolygon(g) ==
    \E k \in 1..Len(g.primitive_sets) :
        /\ g.primitive_sets[k].mode = "GL_POLYGON"
        /\ g.primitive_sets[k].type \in {"DrawElementsUByte", "DrawElementsUShort",
                                         "DrawElementsUInt", "DrawArrays"}

\* C17: for a primitive set of mode GL_POLYGON WriteElementArrayPrimitive
\* emits a primitive of mode 6 (TRIANGLE_FAN) and the conversion of the file
\* goes on.
C17_PolygonBecomesTriangleFan ==
    \A k \in Written :
        HasPolygon(glb_args.geometry_array[k]) =>
            /\ glb_pc # "exited"
            /\ \E i \in 1..Len(osgState.primitives) :
                  osgState.primitives[i].mode = "TRIANGLE_FAN"

\* the place <<geometry, primitive set>> each primitive of the mesh comes from:
\* every primitive set written before an exit gave one primitive
RECURSIVE PlacesFrom(_)
PlacesFrom(gi) ==
    IF gi > Len(glb_args.geometry_array) THEN << >>
    ELSE [k \in 1..Len(glb_args.geometry_array[gi].primitive_sets) |-> <<gi, k>>]
         \o PlacesFrom(gi + 1)
PrimitiveSetOf(j) ==
    glb_args.geometry_array[PlacesFrom(1)[j][1]].primitive_sets[PlacesFrom(1)[j][2]]
\* the vertex attribute accessors of a primitive
AttributesOf(j) ==
    {osgState.primitives[j].POSITION, osgState.primitives[j].NORMAL,
     osgState.primitives[j].TEXCOORD_0} \ {-1}
\* the primitive of the first primitive set without draw range of the geometry
\* that primitive j belongs to
FirstUnranged(j) ==
    CHOOSE i \in 1..j :
        /\ PlacesFrom(1)[i][1] = PlacesFrom(1)[j][1]
        /\ PrimitiveSetOf(i).type # "DrawArrays"
        /\ \A h \in 1..(i - 1) :
              PlacesFrom(1)[h][1] = PlacesFrom(1)[j][1] => PrimitiveSetOf(h).type = "DrawArrays"

\* C22: within one geometry, every primitive set without a draw range uses
\* the POSITION, NORMAL and TEXCOORD_0 accessors of the first such primitive
\* set, and every DrawArrays primitive set gets accessors of its own that
\* hold the elements first .. first+count-1 only and that no other primitive
\* uses.
C22_AccessorsReusedUnlessDrawRange ==
    \A j \in 1..Len(osgState.primitives) :
        IF PrimitiveSetOf(j).type # "DrawArrays"
        THEN /\ osgState.primitives[j].POSITION = osgState.primitives[FirstUnranged(j)].POSITION
             /\ osgState.primitives[j].NORMAL = osgState.primitives[FirstUnranged(j)].NORMAL
             /\ osgState.primitives[j].TEXCOORD_0
                   = osgState.primitives[FirstUnranged(j)].TEXCOORD_0
        ELSE \A a \in AttributesOf(j) :
                /\ osgState.accessors[a + 1].first = PrimitiveSetOf(j).first
                /\ osgState.accessors[a + 1].count = PrimitiveSetOf(j).count
                /\ \A i \in 1..Len(osgState.primitives) : i # j => a \notin AttributesOf(i)
                /\ Cardinality(AttributesOf(j))
                      = 1 + (IF glb_args.geometry_array[PlacesFrom(1)[j][1]].normals
                             THEN 1 ELSE 0)
                          + (IF glb_args.geometry_array[PlacesFrom(1)[j][1]].texcoords
                             THEN 1 ELSE 0)

\* a geometry written as a DrawElements, a DrawArrays that starts at vertex 1
\* and another DrawElements, in this order
C22_Witness ==
    /\ glb_pc = "returned"
    /\ \E j \in 1..(Len(osgState.primitives) - 2) :
          /\ PlacesFrom(1)[j][1] = PlacesFrom(1)[j + 2][1]
          /\ PrimitiveSetOf(j).type # "DrawArrays"
          /\ PrimitiveSetOf(j + 1).type = "DrawArrays" /\ PrimitiveSetOf(j + 1).first = 1
          /\ PrimitiveSetOf(j + 2).type # "DrawArrays"
          /\ osgState.primitives[j + 2].NORMAL > -1

\* the image a texture of the GLB refers to, -1 for none
SourceOf(texture) ==
    IF glb_args.enable_texture_compress THEN texture.basisu_source ELSE texture.source

\* C23: for a file whose texture set has n textures the GLB holds exactly n
\* images and n textures, texture i refers (through source, or through the
\* KHR_texture_basisu source when KTX2 is enabled) to the image encoded from
\* texture i, and a texture without image contributes the white 256 x 256
\* JPEG.
C23_OneImagePerTexture ==
    GlbBuilt =>
        /\ Len(osgState.images) = glb_args.texture_count
        /\ Len(osgState.textures) = glb_args.texture_count
        /\ \A i \in 1..glb_args.texture_count :
              /\ SourceOf(osgState.textures[i]) + 1 \in 1..Len(osgState.images)
              /\ osgState.images[SourceOf(osgState.textures[i]) + 1].tex = i
              /\ glb_args.texture_array[i].NumImages = 0 =>
                    /\ osgState.images[SourceOf(osgState.textures[i]) + 1].white
                    /\ osgState.images[SourceOf(osgState.textures[i]) + 1].mimeType
                          = "image/jpeg"

\* ------------------------------------------------------------------------
\* Properties of InfoVisitor
\* ------------------------------------------------------------------------
RECURSIVE NodeAt(_, _)
NodeAt(node, path) ==
    IF path = << >> THEN node ELSE NodeAt(node.children[Head(path)], Tail(path))

\* the places of the drawables InfoVisitor keeps
RECURSIVE Drawables(_, _)
Drawables(node, path) ==
    IF node.kind = "Geometry" THEN IF node.drawable THEN {path} ELSE {}
    ELSE UNION {Drawables(node.children[i], Append(path, i)) : i \in 1..Len(node.children)}

\* the node at path is a descendant of at least one paged node
UnderPagedNode(path) ==
    \E k \in 0..(Len(path) - 1) : NodeAt(scene_graph, SubSeq(path, 1, k)).kind = "PagedLOD"

Bucket(array) == {array[i] : i \in 1..Len(array)}

\* C27: in per-layer mode InfoVisitor places a drawable in the pagedlod bucket
\* exactly when it is a descendant of at least one paged node of the file,
\* and in the other bucket otherwise, also with nested paged nodes and with
\* drawables visited after a nested paged node has been left.
C27_BucketByPagedAncestor ==
    (visit_pc = "visited" /\ ~visitor.is_loadAllType) =>
        \A path \in Drawables(scene_graph, << >>) :
            /\ path \in Bucket(visitor.geometry_array) <=> UnderPagedNode(path)
            /\ path \in Bucket(visitor.other_geometry_array) <=> ~UnderPagedNode(path)

\* ------------------------------------------------------------------------
\* Properties of LoadAndConvertToMesh
\* ------------------------------------------------------------------------
\* the files at most k reference levels below the root file, through files
\* that load
RECURSIVE WithinLevels(_)
WithinLevels(k) ==
    IF k = 0 THEN {1}
    ELSE WithinLevels(k - 1) \cup
         UNION {load_args.files[f].childFiles :
                   f \in {g \in WithinLevels(k - 1) : load_args.files[g].loads}}

MergedOnceWithinDepth ==
    /\ \A i, j \in 1..Len(merged) : merged[i] = merged[j] => i = j
    /\ \A i \in 1..Len(merged) : merged[i] # 1
    /\ load_args.maxDepth > 0 =>
          \A i \in 1..Len(merged) : merged[i] \in WithinLevels(load_args.maxDepth)

RECURSIVE PairwiseTriangles(_, _)
PairwiseTriangles(strip, i) ==
    IF 2 * i + 3 >= Len(strip) THEN << >>
    ELSE <<strip[2 * i + 1], strip[2 * i + 2], strip[2 * i + 3],
           strip[2 * i + 2], strip[2 * i + 4], strip[2 * i + 3]>>
         \o PairwiseTriangles(strip, i + 1)
\* the vertices of the strip as the extractor and as the writer number them
ExtractorStrip ==
    IF strip_ps.type = "DrawArrays"
    THEN [i \in 1..strip_ps.count |-> strip_ps.first + i - 1]
    ELSE strip_ps.indices
WriterStrip ==
    IF strip_ps.type = "DrawArrays"
    THEN [i \in 1..strip_ps.count |-> i - 1]
    ELSE strip_ps.indices

\* C24: every GL_QUAD_STRIP triangulation (TriangulateQuadLike of the GLB
\* writer, processDrawElements and processDrawArrays of the mesh extractor)
\* emits for each i exactly the triangles (v0,v1,v2) and (v1,v3,v2) of the
\* vertices at the places 2i .. 2i+3, so that all give the same indices for
\* the same strip.
C24_QuadStripPairwise ==
    /\ "writer" \in strip_done =>
          triangulated_indices = PairwiseTriangles(WriterStrip, 0)
    /\ "extractor" \in strip_done =>
          meshIndices = PairwiseTriangles(ExtractorStrip, 0)
    /\ (strip_done = {"writer", "extractor"} /\ WriterStrip = ExtractorStrip) =>
          meshIndices = triangulated_indices

====
